---- MODULE Spec2Model ----
(***************************************************************************)
(* Model of the AKIPS device import job (jobs/akips_import.py): the CSV    *)
(* row grouper, the identifier parser, the site and device-type resolvers  *)
(* and the per-group reconciliation of devices and virtual chassis         *)
(* against the inventory store; and of the virtual chassis import job      *)
(* (jobs/import_devices.py).                                               *)
(*                                                                         *)
(* Three specifications: Spec runs the AKIPS job, SpecProbe applies the    *)
(* parser, the resolvers, the row grouper and the CreateVirtualChassis job *)
(* (jobs/job2.py) to drawn inputs, SpecImport runs the virtual chassis     *)
(* import job.                                                             *)
(*                                                                         *)
(* Strings the code splits or formats are modelled by what the code does   *)
(* with them: a device name is the sequence of its '-'-separated tokens,   *)
(* so f"{device_name}-{member_id}" appends the decimal rendering of the    *)
(* member id as one more token, and split('-') is the sequence itself.     *)
(* The inventory store is a collaborator: its tables are sequences in      *)
(* primary-key order, and any create/save may raise (FailAt).              *)
(***************************************************************************)
EXTENDS Integers, Sequences, FiniteSets, TLC

VARIABLES
    store,          \* the inventory store: devices, vcs, platform, ...
    stats,          \* self.stats of the job instance of the current run
    create_missing, \* self.create_missing of the current run
    device_groups,  \* parse_csv's result: sequence of <<name, members>>
    idx,            \* position of run's loop over device_groups.items()
    pc,             \* "idle" | "running" | "done" | "raised"
    runs,           \* number of runs started so far
    faults,         \* store failures injected so far
    pre,            \* history: store and stats before the last group, its
                    \* branch, and whether a store write failed in it
    hist,           \* history: facts about the previous and current run
    probe,          \* SpecProbe: the drawn inputs, the function applied to
                    \* them and what it returned
    imp             \* SpecImport: the store, the grouped rows, the results
                    \* and the loop position of ImportVirtualChassisDevices

\* the state of the AKIPS job
akips_vars == <<store, stats, create_missing, device_groups, idx, pc, runs,
                faults, pre, hist>>

vars == <<store, stats, create_missing, device_groups, idx, pc, runs, faults,
          pre, hist, probe, imp>>

----------------------------------------------------------------------------
(* Bounds of the model *)

MaxRows == 2

MaxRuns == 2

MaxFaults == 1

----------------------------------------------------------------------------
(* Python's None, per type *)

None == -1

NoRef == 0

NoStr == "None"

----------------------------------------------------------------------------
(* Strings *)

\* str.upper() on the strings of the model
Upper(s) ==
    CASE s = "a" -> "A" [] s = "b" -> "B"
      [] s = "accs" -> "ACCS" [] s = "dist" -> "DIST" [] s = "sw" -> "SW"
      [] s = "ex1" -> "EX1" [] s = "zz" -> "ZZ" [] s = "Ex1" -> "EX1"
      [] s = "Juniper ex1" -> "JUNIPER EX1" [] s = "Juniper EX1" -> "JUNIPER EX1"
      [] s = "Juniper Ex1" -> "JUNIPER EX1"
      [] s = "Juniper zz" -> "JUNIPER ZZ" [] s = "Juniper ZZ" -> "JUNIPER ZZ"
      [] s = "master" -> "MASTER" [] s = "Master" -> "MASTER"
      [] s = "backup" -> "BACKUP" [] s = "linecard" -> "LINECARD"
      [] s = "ho" -> "HO" [] s = "arl" -> "ARL" [] s = "art" -> "ART"
      [] OTHER -> s

\* str.lower() on the strings of the model
Lower(s) ==
    CASE s = "A" -> "a" [] s = "B" -> "b"
      [] s = "ACCS" -> "accs" [] s = "DIST" -> "dist" [] s = "SW" -> "sw"
      [] s = "Accs" -> "accs"
      [] s = "EX1" -> "ex1" [] s = "ZZ" -> "zz" [] s = "Ex1" -> "ex1"
      [] s = "Juniper ex1" -> "juniper ex1" [] s = "Juniper EX1" -> "juniper ex1"
      [] s = "Juniper Ex1" -> "juniper ex1"
      [] s = "Juniper zz" -> "juniper zz" [] s = "Juniper ZZ" -> "juniper zz"
      [] s = "JUNIPER EX1" -> "juniper ex1" [] s = "JUNIPER ZZ" -> "juniper zz"
      [] s = "MASTER" -> "master" [] s = "Master" -> "master"
      [] s = "BACKUP" -> "backup" [] s = "LINECARD" -> "linecard"
      [] s = "Dist" -> "dist" [] s = "Core" -> "core" [] s = "HO" -> "ho"
      [] s = "ARL" -> "arl" [] s = "ART" -> "art"
      [] OTHER -> s

\* str.strip() on the strings of the model
Strip(s) ==
    CASE s = " accs" -> "accs" [] s = "1 " -> "1" [] s = " S1" -> "S1"
      [] s = "S1 " -> "S1" [] s = " master" -> "master"
      [] s = "master " -> "master" [] s = " " -> ""
      [] OTHER -> s

\* str.strip() on a name given by its '-'-separated tokens: whitespace
\* leaves the head of the first token and the tail of the last
StripName(name) ==
    [i \in 1..Len(name) |->
        IF i = 1 \/ i = Len(name) THEN Strip(name[i]) ELSE name[i]]

\* f"Juniper {s}"
JuniperPrefixed(s) ==
    CASE s = "ex1" -> "Juniper ex1" [] s = "EX1" -> "Juniper EX1"
      [] s = "zz" -> "Juniper zz" [] s = "ZZ" -> "Juniper ZZ"
      [] s = "Ex1" -> "Juniper Ex1"

\* part[0].isdigit() for a non-empty part
StartsWithDigit(s) == s \in {"0", "1", "2", "3", "414", "1550"}

\* int(row['ID']): the integer, or ValueError
IsIntText(s) == s \in {"0", "1", "2", "3"}

ParseInt(s) ==
    CASE s = "0" -> 0 [] s = "1" -> 1 [] s = "2" -> 2 [] s = "3" -> 3

\* str(member_id) as formatted into an f-string
IntText(n) ==
    CASE n = 0 -> "0" [] n = 1 -> "1" [] n = 2 -> "2" [] n = 3 -> "3"

\* f"{device_name}-{member_id}": one more '-'-separated token
MemberName(device_name, member_id) == Append(device_name, IntText(member_id))

----------------------------------------------------------------------------
(* The store collaborator and the world threaded through a group's steps.   *)
(* A world w is [store, stats, create_missing, nwrites, failAt, exc]:       *)
(* nwrites counts the store writes made so far while processing the group,  *)
(* the write numbered failAt raises (0: none does), and exc says that an    *)
(* exception is propagating.                                                *)

World(st, ss, cm, f) ==
    [store |-> st, stats |-> ss, create_missing |-> cm, nwrites |-> 0,
     failAt |-> f, exc |-> FALSE]

\* the next store write raises
WillFail(w) == w.failAt # 0 /\ w.nwrites + 1 = w.failAt

Tick(w) == [w EXCEPT !.nwrites = @ + 1]

Raise(w) == [w EXCEPT !.exc = TRUE]

Ret(w, v) == [w |-> w, ret |-> v]

Min(S) == CHOOSE x \in S : \A y \in S : x <= y

\* QuerySet.first(): the first matching row, or None
First(S) == IF S = {} THEN NoRef ELSE Min(S)

\* the value of an expression evaluated once: the element of a one-element
\* set
Only(S) == CHOOSE x \in S : TRUE

DeviceRec(name, role, dtype, serial, site, vc, vc_position, vc_priority) ==
    [name |-> name, device_role |-> role, device_type |-> dtype,
     serial |-> serial, site |-> site, virtual_chassis |-> vc,
     vc_position |-> vc_position, vc_priority |-> vc_priority]

\* a create that raises after the row was inserted
DeviceCreate_raising_late(w, d) ==
    IF WillFail(w)
    THEN Ret(Raise([Tick(w) EXCEPT !.store.devices = Append(@, d)]), NoRef)
    ELSE Ret([Tick(w) EXCEPT !.store.devices = Append(@, d)],
             Len(w.store.devices) + 1)

\* Device.objects.create(...)
DeviceCreate(w, d) ==
    IF WillFail(w) THEN Ret(Raise(Tick(w)), NoRef)
    ELSE Ret([Tick(w) EXCEPT !.store.devices = Append(@, d)],
             Len(w.store.devices) + 1)

\* VirtualChassis.objects.create(name=, master=, domain=)
VirtualChassisCreate(w, name, master) ==
    IF WillFail(w) THEN Ret(Raise(Tick(w)), NoRef)
    ELSE Ret([Tick(w) EXCEPT !.store.vcs =
                 Append(@, [name |-> name, master |-> master, domain |-> name])],
             Len(w.store.vcs) + 1)

\* Device.objects.filter(name=name).first()
DeviceByName(w, name) ==
    First({i \in 1..Len(w.store.devices) : w.store.devices[i].name = name})

\* VirtualChassis.objects.filter(master__name=device_name).first()
VcByMasterName(w, device_name) ==
    First({v \in 1..Len(w.store.vcs) :
             /\ w.store.vcs[v].master # NoRef
             /\ w.store.devices[w.store.vcs[v].master].name = device_name})

\* Device.objects.filter(virtual_chassis=vc).count()
VcMemberCount(w, vc) ==
    Cardinality({i \in 1..Len(w.store.devices) :
                   w.store.devices[i].virtual_chassis = vc})

----------------------------------------------------------------------------
(* Identifier parser and resolvers *)

\* the lookup taking the first site that matches but for case
check_site_exists_any_case(sites, facility_code) ==
    First({i \in 1..Len(sites) :
             Lower(sites[i].facility) = Lower(facility_code)})

\* Site.objects.get(facility=) with its two fallbacks
_check_site_exists(sites, facility_code) ==
    LET exact == {i \in 1..Len(sites) : sites[i].facility = facility_code}
        iexact == {i \in 1..Len(sites) :
                     Lower(sites[i].facility) = Lower(facility_code)}
    IN IF exact = {} THEN First(iexact) ELSE First(exact)

RECURSIVE facility_walk(_, _, _)
\* the loop over parts[1:], at position i
facility_walk(sites, parts, i) ==
    IF i > Len(parts) THEN NoStr
    ELSE IF parts[i] # "" /\ StartsWithDigit(parts[i]) THEN NoStr
    ELSE IF _check_site_exists(sites, Upper(parts[i])) # NoRef
         THEN Upper(parts[i])
    ELSE facility_walk(sites, parts, i + 1)

\* the parser accepting names of two tokens
parse_facility_code_two_tokens(sites, device_name) ==
    IF Len(device_name) < 2 THEN NoStr
    ELSE facility_walk(sites, device_name, 2)

parse_facility_code(sites, device_name) ==
    IF Len(device_name) < 3 THEN NoStr
    ELSE facility_walk(sites, device_name, 2)

find_site_by_facility_code(sites, facility_code) ==
    IF facility_code = NoStr \/ facility_code = "" THEN NoRef
    ELSE _check_site_exists(sites, facility_code)

\* the classifier without lower()
extract_device_role_case_sensitive(device_name) ==
    LET first_part == device_name[1]
    IN CASE first_part = "accs" -> "Access"
         [] first_part = "dist" -> "Distribution"
         [] first_part = "core" -> "Core"
         [] first_part = "edge" -> "Edge"
         [] first_part = "aggr" -> "Aggregation"
         [] OTHER -> "Access"

extract_device_role(device_name) ==
    LET first_part == Lower(device_name[1])
    IN CASE first_part = "accs" -> "Access"
         [] first_part = "dist" -> "Distribution"
         [] first_part = "core" -> "Core"
         [] first_part = "edge" -> "Edge"
         [] first_part = "aggr" -> "Aggregation"
         [] OTHER -> "Access"

get_or_create_device_role(w, role_name) ==
    IF role_name \in w.store.roles THEN role_name ELSE NoStr

\* the first of the lookup attempts that names a stored device type
RECURSIVE first_attempt(_, _, _)
first_attempt(dtypes, attempts, i) ==
    IF i > Len(attempts) THEN NoStr
    ELSE IF \E k \in 1..Len(dtypes) : dtypes[k] = attempts[i] THEN attempts[i]
    ELSE first_attempt(dtypes, attempts, i + 1)

\* the attempts with the raw prefixed form ahead of the upper-cased one
lookup_attempts_raw_prefix_first(model_name) ==
    <<model_name, Upper(model_name), JuniperPrefixed(model_name),
      JuniperPrefixed(Upper(model_name))>>

\* the lookup strategies, in the order they are tried
lookup_attempts(model_name) ==
    <<model_name, Upper(model_name), JuniperPrefixed(Upper(model_name)),
      JuniperPrefixed(model_name)>>

get_or_create_device_type(w0, model_name) ==
    LET w == [w0 EXCEPT !.store.manufacturer = TRUE]
        dtypes == w.store.dtypes
        normalized_model == Upper(model_name)
        found == first_attempt(dtypes, lookup_attempts(model_name), 1)
        ci == First({k \in 1..Len(dtypes) :
                       Lower(dtypes[k]) = Lower(normalized_model)})
        cip == First({k \in 1..Len(dtypes) :
                       Lower(dtypes[k]) =
                           Lower(JuniperPrefixed(normalized_model))})
    IN IF found # NoStr THEN Ret(w, found)
       ELSE IF ci # NoRef THEN Ret(w, dtypes[ci])
       ELSE IF cip # NoRef THEN Ret(w, dtypes[cip])
       ELSE IF w.create_missing
            THEN IF WillFail(w) THEN Ret(Raise(Tick(w)), NoStr)
                 ELSE Ret([Tick(w) EXCEPT !.store.dtypes =
                              Append(@, JuniperPrefixed(normalized_model))],
                          JuniperPrefixed(normalized_model))
       ELSE Ret(w, NoStr)

get_platform(w) ==
    IF w.store.platform THEN w
    ELSE IF ~w.store.manufacturer THEN Raise(w)
    ELSE IF WillFail(w) THEN Raise(Tick(w))
    ELSE [Tick(w) EXCEPT !.store.platform = TRUE]


----------------------------------------------------------------------------
(* self.stats *)

EmptyStats ==
    [devices_created |-> 0, devices_updated |-> 0, devices_skipped |-> 0,
     virtual_chassis_created |-> 0, virtual_chassis_updated |-> 0,
     errors |-> <<>>, warnings |-> <<>>, serial_mismatches |-> <<>>,
     vc_mismatches |-> <<>>]

AddError(w, kind, device_name) ==
    [w EXCEPT !.stats.errors = Append(@, [kind |-> kind, device |-> device_name])]

AddWarning(w, kind, device_name) ==
    [w EXCEPT !.stats.warnings = Append(@, [kind |-> kind, device |-> device_name])]

AddSerialMismatch(w, name, member_data, actual) ==
    [w EXCEPT !.stats.serial_mismatches =
        Append(@, [device |-> name, member_id |-> member_data.member_id,
                   expected_serial |-> member_data.serial,
                   actual_serial |-> actual])]

\* a priority for the master only
VcPriority_master_only(role) ==
    IF Lower(role) = "master" THEN 1 ELSE None

\* 1 for master and backup, None for every other role tag
VcPriority(role) ==
    IF Lower(role) = "master" THEN 1
    ELSE IF Lower(role) = "backup" THEN 1 ELSE None

----------------------------------------------------------------------------
(* Reconciliation engine *)

\* create_device forgetting to count the device it created
create_device_uncounted(w0, device_name, member_data, device_role, site) ==
    LET r == get_or_create_device_type(w0, member_data.model)
    IN IF r.w.exc THEN Ret(r.w, NoRef)
       ELSE IF r.ret = NoStr
            THEN Ret([AddError(r.w, "no_device_type", device_name)
                         EXCEPT !.stats.devices_skipped = @ + 1], NoRef)
       ELSE LET c == DeviceCreate(r.w,
                        DeviceRec(MemberName(device_name, member_data.member_id),
                                  device_role, r.ret, member_data.serial, site,
                                  NoRef, None, None))
            IN IF c.w.exc
               THEN Ret([AddError(c.w, "create_device_failed", device_name)
                            EXCEPT !.exc = FALSE,
                                   !.stats.devices_skipped = @ + 1], NoRef)
               ELSE c

create_device(w0, device_name, member_data, device_role, site) ==
    LET r == get_or_create_device_type(w0, member_data.model)
    IN IF r.w.exc THEN Ret(r.w, NoRef)
       ELSE IF r.ret = NoStr
            THEN Ret([AddError(r.w, "no_device_type", device_name)
                         EXCEPT !.stats.devices_skipped = @ + 1], NoRef)
       ELSE LET c == DeviceCreate(r.w,
                        DeviceRec(MemberName(device_name, member_data.member_id),
                                  device_role, r.ret, member_data.serial, site,
                                  NoRef, None, None))
            IN IF c.w.exc
               THEN Ret([AddError(c.w, "create_device_failed", device_name)
                            EXCEPT !.exc = FALSE,
                                   !.stats.devices_skipped = @ + 1], NoRef)
               ELSE Ret([c.w EXCEPT !.stats.devices_created = @ + 1], c.ret)

\* an attach that also brings the stored serial in line with the import
AttachMember_syncing_serial(w, d, vc, member_data) ==
    IF WillFail(w) THEN Raise(Tick(w))
    ELSE [Tick(w) EXCEPT !.store.devices[d].virtual_chassis = vc,
                         !.store.devices[d].vc_position = member_data.member_id,
                         !.store.devices[d].vc_priority =
                             VcPriority(member_data.role),
                         !.store.devices[d].serial = member_data.serial]

\* member_device.virtual_chassis = vc; ...; member_device.save()
AttachMember(w, d, vc, member_data) ==
    IF WillFail(w) THEN Raise(Tick(w))
    ELSE [Tick(w) EXCEPT !.store.devices[d].virtual_chassis = vc,
                         !.store.devices[d].vc_position = member_data.member_id,
                         !.store.devices[d].vc_priority =
                             VcPriority(member_data.role)]

RECURSIVE vc_member_loop(_, _, _, _, _, _, _)
\* create_virtual_chassis: the loop over members, at member i
vc_member_loop(w, vc, vc_name, device_role, members, site, i) ==
    IF i > Len(members) \/ w.exc THEN w
    ELSE LET member_data == members[i]
             member_device_name == MemberName(vc_name, member_data.member_id)
             member_device == DeviceByName(w, member_device_name)
         IN IF member_device # NoRef
            THEN vc_member_loop(AttachMember(w, member_device, vc, member_data),
                                vc, vc_name, device_role, members, site, i + 1)
            ELSE LET r == get_or_create_device_type(w, member_data.model)
                 IN IF r.w.exc THEN r.w
                    ELSE IF r.ret = NoStr
                         THEN vc_member_loop(r.w, vc, vc_name, device_role,
                                             members, site, i + 1)
                    ELSE LET c == DeviceCreate(r.w,
                                     DeviceRec(member_device_name, device_role,
                                               r.ret, member_data.serial, site,
                                               vc, member_data.member_id,
                                               VcPriority(member_data.role)))
                         IN IF c.w.exc THEN c.w
                            ELSE vc_member_loop(
                                     [c.w EXCEPT !.stats.devices_created = @ + 1],
                                     vc, vc_name, device_role, members, site,
                                     i + 1)

\* the except clause of create_virtual_chassis
VcFailed(w, vc_name) ==
    Ret([AddError(w, "create_vc_failed", vc_name) EXCEPT !.exc = FALSE], NoRef)

\* the master reference left at the device the virtual chassis was created
\* with
vc_set_master_kept(w, vc, vc_name, members) ==
    LET master_device_name == MemberName(vc_name, members[1].member_id)
        named == {i \in 1..Len(w.store.devices) :
                    w.store.devices[i].name = master_device_name}
    IN IF Cardinality(named) # 1 THEN VcFailed(w, vc_name)
       ELSE Ret([w EXCEPT !.stats.virtual_chassis_created = @ + 1], vc)

\* "Update master reference if needed", then the counter
vc_set_master(w, vc, vc_name, members) ==
    LET master_device_name == MemberName(vc_name, members[1].member_id)
        named == {i \in 1..Len(w.store.devices) :
                    w.store.devices[i].name = master_device_name}
        actual_master == Min(named)
        counted(x) == [x EXCEPT !.stats.virtual_chassis_created = @ + 1]
    IN IF Cardinality(named) # 1 THEN VcFailed(w, vc_name)
       ELSE IF w.store.vcs[vc].master = actual_master THEN Ret(counted(w), vc)
       ELSE IF WillFail(w) THEN VcFailed(Tick(w), vc_name)
       ELSE Ret(counted([Tick(w) EXCEPT !.store.vcs[vc].master = actual_master]),
                vc)

create_virtual_chassis(w0, vc_name, master_device, members, site) ==
    LET c == VirtualChassisCreate(w0, vc_name, master_device)
    IN IF c.w.exc THEN VcFailed(c.w, vc_name)
       ELSE LET w1 == vc_member_loop(c.w, c.ret, vc_name,
                          c.w.store.devices[master_device].device_role,
                          members, site, 1)
            IN IF w1.exc THEN VcFailed(w1, vc_name)
               ELSE vc_set_master(w1, c.ret, vc_name, members)

\* a missing member created outside the virtual chassis
missing_member_record_unattached(name, device_role, device_type, member_data, site, vc) ==
    DeviceRec(name, device_role, device_type, member_data.serial, site,
              NoRef, None, None)

\* the keyword arguments of Device.objects.create for a missing member
missing_member_record(name, device_role, device_type, member_data, site, vc) ==
    DeviceRec(name, device_role, device_type, member_data.serial, site,
              vc, member_data.member_id, VcPriority(member_data.role))

RECURSIVE verify_loop(_, _, _, _, _, _)
\* verify_and_update_virtual_chassis: the loop over members, at member i
verify_loop(w, vc, members, device_role, site, i) ==
    IF i > Len(members) \/ w.exc THEN w
    ELSE LET member_data == members[i]
             member_device_name ==
                 MemberName(w.store.vcs[vc].name, member_data.member_id)
             member_device == DeviceByName(w, member_device_name)
         IN IF member_device = NoRef
            THEN LET r == get_or_create_device_type(w, member_data.model)
                 IN IF r.w.exc THEN r.w
                    ELSE IF r.ret = NoStr
                         THEN verify_loop(r.w, vc, members, device_role, site,
                                          i + 1)
                    ELSE LET c == DeviceCreate(r.w,
                                     missing_member_record(
                                         member_device_name, device_role,
                                         r.ret, member_data, site, vc))
                         IN IF c.w.exc THEN c.w
                            ELSE verify_loop(
                                     [c.w EXCEPT !.stats.devices_created = @ + 1],
                                     vc, members, device_role, site, i + 1)
            ELSE LET stored == w.store.devices[member_device].serial
                     w1 == IF stored # member_data.serial
                           THEN AddSerialMismatch(w, member_device_name,
                                                  member_data, stored)
                           ELSE w
                 IN verify_loop(w1, vc, members, device_role, site, i + 1)

\* the member count taken after the missing members were created
verify_and_update_counting_late(w0, vc, members, device_role, site) ==
    LET w1 == verify_loop(w0, vc, members, device_role, site, 1)
        count == VcMemberCount(w1, vc)
        w2 == IF count # Len(members)
              THEN [w1 EXCEPT !.stats.vc_mismatches =
                       Append(@, [vc |-> w1.store.vcs[vc].name,
                                  issue |-> "member_count",
                                  expected |-> Len(members),
                                  actual |-> count])]
              ELSE w1
    IN IF w2.exc THEN w2
       ELSE [w2 EXCEPT !.stats.virtual_chassis_updated = @ + 1]

verify_and_update_virtual_chassis(w0, vc, members, device_role, site) ==
    LET count == VcMemberCount(w0, vc)
        w1 == IF count # Len(members)
              THEN [w0 EXCEPT !.stats.vc_mismatches =
                       Append(@, [vc |-> w0.store.vcs[vc].name,
                                  issue |-> "member_count",
                                  expected |-> Len(members),
                                  actual |-> count])]
              ELSE w0
        w2 == verify_loop(w1, vc, members, device_role, site, 1)
    IN IF w2.exc THEN w2
       ELSE [w2 EXCEPT !.stats.virtual_chassis_updated = @ + 1]

\* the selection comparing the role tag as written
MasterMember_case_sensitive(members) ==
    LET tagged == {i \in 1..Len(members) : members[i].role = "master"}
    IN IF tagged = {} THEN members[1] ELSE members[Min(tagged)]

\* next((m for m in members if m['role'].lower() == 'master'), members[0])
MasterMember(members) ==
    LET tagged == {i \in 1..Len(members) : Lower(members[i].role) = "master"}
    IN IF tagged = {} THEN members[1] ELSE members[Min(tagged)]

\* the single-member branch leaving the counters alone
single_member_no_vc_uncounted(w) == w

\* "Single-member chassis, no VC needed" for a device that exists
single_member_no_vc(w) == [w EXCEPT !.stats.devices_updated = @ + 1]

\* process_virtual_chassis from "Find or create master device first" on
reconcile(w, device_name, members, device_role, site) ==
    LET master_member == MasterMember(members)
        existing_vc == VcByMasterName(w, device_name)
        existing_device == DeviceByName(w, device_name)
    IN IF existing_vc # NoRef
       THEN verify_and_update_virtual_chassis(w, existing_vc, members,
                                              device_role, site)
       ELSE IF existing_device # NoRef
       THEN LET stored == w.store.devices[existing_device].serial
                w1 == IF stored # master_member.serial
                      THEN AddSerialMismatch(w, device_name, master_member,
                                             stored)
                      ELSE w
            IN IF Len(members) > 1
               THEN create_virtual_chassis(w1, device_name, existing_device,
                                           members, site).w
               ELSE single_member_no_vc(w1)
       ELSE LET m == create_device(w, device_name, master_member, device_role,
                                   site)
            IN IF m.w.exc THEN m.w
               ELSE IF m.ret # NoRef /\ Len(members) > 1
                    THEN create_virtual_chassis(m.w, device_name, m.ret,
                                                members, site).w
               ELSE m.w

\* a missing role counted as one skipped device
role_missing_skip_one(w, device_name, members) ==
    [AddError(w, "no_device_role", device_name)
        EXCEPT !.stats.devices_skipped = @ + 1]

\* "Cannot proceed without DeviceRole"
role_missing(w, device_name, members) ==
    [AddError(w, "no_device_role", device_name)
        EXCEPT !.stats.devices_skipped = @ + Len(members)]

\* the branch of process_virtual_chassis a group takes
PathOf(w0, device_name) ==
    LET w2 == get_platform(w0)
    IN IF w2.exc THEN "platform_raised"
       ELSE IF get_or_create_device_role(w2, extract_device_role(device_name))
                 = NoStr
            THEN "no_role"
       ELSE IF VcByMasterName(w2, device_name) # NoRef THEN "verify"
       ELSE IF DeviceByName(w2, device_name) # NoRef THEN "bare"
       ELSE "fresh"

\* the head of process_virtual_chassis: the site of the group, with a
\* warning when there is none
site_of_group(w0, device_name) ==
    LET facility_code == parse_facility_code(w0.store.sites, device_name)
        site == find_site_by_facility_code(w0.store.sites, facility_code)
    IN Ret(IF site = NoRef THEN AddWarning(w0, "no_site", device_name)
           ELSE w0,
           site)

process_virtual_chassis(w0, device_name, members) ==
    LET resolved == site_of_group(w0, device_name)
        site == resolved.ret
        w1 == resolved.w
        device_role_name == extract_device_role(device_name)
        device_role == get_or_create_device_role(w1, device_role_name)
        w2 == get_platform(w1)
    IN IF w2.exc THEN w2
       ELSE IF device_role = NoStr
            THEN role_missing(w2, device_name, members)
       ELSE reconcile(w2, device_name, members, device_role, site)


----------------------------------------------------------------------------
(* Row grouper *)

MemberOf(row) ==
    [device_name |-> StripName(row.Device), member_id |-> ParseInt(row.ID),
     model |-> Strip(row.Model), serial |-> Strip(row.Serial),
     role |-> Strip(row.Role)]

RECURSIVE group_rows(_, _, _)
\* parse_csv: the loop over the reader's rows, at row i; ok is FALSE when
\* int(row['ID']) raised ValueError
group_rows(rows, i, groups) ==
    IF i > Len(rows) THEN [ok |-> TRUE, groups |-> groups]
    ELSE LET device_name == StripName(rows[i].Device)
             at == First({g \in 1..Len(groups) :
                            groups[g].device_name = device_name})
             groups1 == IF at = NoRef
                        THEN Append(groups, [device_name |-> device_name,
                                             members |-> <<>>])
                        ELSE groups
             g == IF at = NoRef THEN Len(groups1) ELSE at
         IN IF ~IsIntText(rows[i].ID) THEN [ok |-> FALSE, groups |-> groups1]
            ELSE Only({group_rows(rows, i + 1, appended) :
                       appended \in {[groups1 EXCEPT ![g].members =
                                         Append(@, MemberOf(rows[i]))]}})

\* a sort that is not stable: m goes before the members of equal key
InsertMember_before_equals(sorted, m) ==
    LET k == Cardinality({j \in 1..Len(sorted) :
                            sorted[j].member_id < m.member_id})
    IN SubSeq(sorted, 1, k) \o <<m>> \o SubSeq(sorted, k + 1, Len(sorted))

\* where list.sort puts m among the already sorted members: after every
\* member whose key is not greater (the sort is stable)
InsertMember(sorted, m) ==
    LET k == Cardinality({j \in 1..Len(sorted) :
                            sorted[j].member_id <= m.member_id})
    IN SubSeq(sorted, 1, k) \o <<m>> \o SubSeq(sorted, k + 1, Len(sorted))

RECURSIVE SortMembers(_)
\* members.sort(key=lambda x: x['member_id'])
SortMembers(members) ==
    IF members = <<>> THEN <<>>
    ELSE InsertMember(SortMembers(SubSeq(members, 1, Len(members) - 1)),
                      members[Len(members)])

parse_csv(rows) ==
    Only({IF ~g.ok THEN g
          ELSE [ok |-> TRUE,
                groups |-> [k \in 1..Len(g.groups) |->
                              [g.groups[k] EXCEPT !.members = SortMembers(@)]]] :
          g \in {group_rows(rows, 1, <<>>)}})

----------------------------------------------------------------------------
(* Inputs and initial stores *)

GroupX == <<"accs", "a", "1">>

GroupY == <<"sw", "b", "1">>

\* Rows of the file. Group X is the group under reconciliation: its rows
\* take every member id, serial and the role tags master and linecard with
\* the model the store knows, and every member id and the role tags master
\* and backup with a model it does not know.
\* Group Y is the other group of the file. One row carries an ID that is no
\* integer.
Rows ==
    [Device : {GroupX}, ID : {"0", "1"}, Model : {"ex1"},
     Serial : {"S1", "S2"}, Role : {"master", "linecard"}]
    \cup [Device : {GroupX}, ID : {"0", "1"}, Model : {"zz"},
          Serial : {"S1"}, Role : {"master", "backup"}]
    \cup [Device : {GroupY}, ID : {"0"}, Model : {"ex1"},
          Serial : {"S1"}, Role : {"master"}]
    \cup [Device : {GroupX}, ID : {"x"}, Model : {"ex1"},
          Serial : {"S1"}, Role : {"master"}]

RECURSIVE SeqsUpTo(_, _)
\* the sequences over S of length at most n
SeqsUpTo(S, n) ==
    IF n = 0 THEN {<<>>}
    ELSE LET shorter == SeqsUpTo(S, n - 1)
         IN shorter \cup {Append(q, x) : q \in shorter, x \in S}

CsvInputs == SeqsUpTo(Rows, MaxRows)

StoredDevice(name, serial, vc, vc_position) ==
    DeviceRec(name, "Access", "Juniper EX1", serial, 1, vc, vc_position, None)

StoredVc(name, master) == [name |-> name, master |-> master, domain |-> name]

EmptyInventory == [devices |-> <<>>, vcs |-> <<>>]

\* devices and virtual chassis the store may hold before the first run
Inventories ==
    { \* nothing
      EmptyInventory,
      \* a bare device named after the group
      [devices |-> <<StoredDevice(GroupX, "S1", NoRef, None)>>, vcs |-> <<>>],
      \* a bare device and a bare member-named device
      [devices |-> <<StoredDevice(GroupX, "S1", NoRef, None),
                     StoredDevice(MemberName(GroupX, 1), "S1", NoRef, None)>>,
       vcs |-> <<>>],
      \* a virtual chassis whose master carries the group name, with members
      \* named as this job names them
      [devices |-> <<StoredDevice(GroupX, "S1", NoRef, None),
                     StoredDevice(MemberName(GroupX, 0), "S1", 1, 0),
                     StoredDevice(MemberName(GroupX, 1), "S1", 1, 1)>>,
       vcs |-> <<StoredVc(GroupX, 1)>>],
      \* the same virtual chassis after its members were renumbered: each
      \* member-named device is stored at the other position
      [devices |-> <<StoredDevice(GroupX, "S1", NoRef, None),
                     StoredDevice(MemberName(GroupX, 0), "S1", 1, 1),
                     StoredDevice(MemberName(GroupX, 1), "S1", 1, 0)>>,
       vcs |-> <<StoredVc(GroupX, 1)>>],
      \* a virtual chassis as import_devices.py leaves it: the master is
      \* named after the group and attached, the other member is named
      \* '{name}-member-{id}'
      [devices |-> <<StoredDevice(GroupX, "S1", 1, 0),
                     StoredDevice(GroupX \o <<"member", "1">>, "S1", 1, 1)>>,
       vcs |-> <<StoredVc(GroupX, 1)>> ] }

StoreOf(inv, manufacturer, platform, roles) ==
    [devices |-> inv.devices, vcs |-> inv.vcs,
     sites |-> <<[name |-> "Site A", facility |-> "A", region |-> "R1"]>>,
     roles |-> roles,
     \* a device type belongs to a manufacturer
     dtypes |-> IF manufacturer THEN <<"Juniper EX1">> ELSE <<>>,
     manufacturer |-> manufacturer, platform |-> platform]

\* Every inventory in a store that has the manufacturer 'Juniper', the
\* platform and the role; and the empty inventory in stores that lack the
\* platform, the manufacturer or the role.
InitStores ==
    {StoreOf(inv, TRUE, TRUE, {"Access"}) : inv \in Inventories}
    \cup {StoreOf(EmptyInventory, TRUE, FALSE, {"Access"}),
          StoreOf(EmptyInventory, FALSE, FALSE, {"Access"}),
          StoreOf(EmptyInventory, TRUE, TRUE, {}),
          StoreOf(EmptyInventory, FALSE, FALSE, {})}

\* the value of probe and of imp in the specifications that do not use them
NoProbe == [kind |-> "none"]

NoImp == [pc |-> "none"]

----------------------------------------------------------------------------
(* The job *)

Init ==
    /\ store \in InitStores
    /\ stats = EmptyStats
    /\ create_missing = FALSE
    /\ device_groups = <<>>
    /\ idx = 1
    /\ pc = "idle"
    /\ runs = 0
    /\ faults = 0
    /\ pre = [store |-> store, stats |-> EmptyStats, fired |-> FALSE,
              path |-> "none"]
    /\ hist = [origin |-> store, start |-> store, nrows |-> 0, nbad |-> 0,
               faults0 |-> 0, prevClean |-> FALSE]
    /\ probe = NoProbe
    /\ imp = NoImp

\* a run that goes on to its loop whatever reading and parsing did
top_level_swallowed(readable, p) == "running"

\* the try block of run up to the loop: read() or parse_csv raising is
\* logged and re-raised
top_level(readable, p) == IF readable /\ p.ok THEN "running" ELSE "raised"

\* run, up to the loop over the groups: a fresh job instance reads and
\* parses the file; readable is FALSE when csv_file.read() raises, and the
\* row counts of the history are then None
StartRun ==
    /\ pc = "idle"
    /\ runs < MaxRuns
    /\ \E csv \in CsvInputs, cm \in BOOLEAN, readable \in BOOLEAN :
         \E p \in {parse_csv(csv)} :
            /\ create_missing' = cm
            /\ device_groups' = IF readable /\ p.ok THEN p.groups ELSE <<>>
            /\ pc' = top_level(readable, p)
            /\ hist' = [origin |-> hist.origin, start |-> store,
                        nrows |-> IF readable THEN Len(csv) ELSE None,
                        nbad |-> IF readable
                                 THEN Cardinality({i \in 1..Len(csv) :
                                                     ~IsIntText(csv[i].ID)})
                                 ELSE None,
                        faults0 |-> faults, prevClean |-> FALSE]
    /\ stats' = EmptyStats
    /\ idx' = 1
    /\ runs' = runs + 1
    /\ pre' = [store |-> store, stats |-> EmptyStats, fired |-> FALSE,
               path |-> "none"]
    /\ UNCHANGED <<store, faults, probe, imp>>

\* run again with the same file and the same create_missing_objects
Rerun ==
    /\ pc = "done"
    /\ runs < MaxRuns
    /\ pc' = "running"
    /\ stats' = EmptyStats
    /\ idx' = 1
    /\ runs' = runs + 1
    /\ pre' = [store |-> store, stats |-> EmptyStats, fired |-> FALSE,
               path |-> "none"]
    /\ hist' = [hist EXCEPT !.start = store,
                            !.faults0 = faults,
                            !.prevClean = /\ stats.errors = <<>>
                                          /\ stats.warnings = <<>>
                                          /\ faults = hist.faults0]
    /\ UNCHANGED <<store, create_missing, device_groups, faults, probe, imp>>

\* the store writes one group can make
FaultPoints == 0..(5 + 2 * MaxRows)

\* one iteration of run's loop: process_virtual_chassis on the next group
ProcessGroup ==
    /\ pc = "running"
    /\ idx <= Len(device_groups)
    /\ \E f \in FaultPoints :
         \E w \in {process_virtual_chassis(
                       World(store, stats, create_missing, f),
                       device_groups[idx].device_name,
                       device_groups[idx].members)} :
            /\ f # 0 => (faults < MaxFaults /\ w.nwrites >= f)
            /\ store' = w.store
            /\ stats' = w.stats
            /\ pc' = IF w.exc THEN "raised" ELSE "running"
            /\ idx' = IF w.exc THEN idx ELSE idx + 1
            /\ faults' = IF f # 0 THEN faults + 1 ELSE faults
            /\ pre' = [store |-> store, stats |-> stats, fired |-> f # 0,
                       path |-> PathOf(World(store, stats, create_missing, f),
                                       device_groups[idx].device_name)]
    /\ UNCHANGED <<create_missing, device_groups, runs, hist, probe, imp>>

\* a summary printed wherever the loop stands
Summary_before_last_group ==
    /\ pc = "running"
    /\ pc' = "done"
    /\ UNCHANGED <<store, stats, create_missing, device_groups, idx, runs,
                   faults, pre, hist, probe, imp>>

\* the summary, after the last group
Summary ==
    /\ pc = "running"
    /\ idx > Len(device_groups)
    /\ pc' = "done"
    /\ UNCHANGED <<store, stats, create_missing, device_groups, idx, runs,
                   faults, pre, hist, probe, imp>>

Next == StartRun \/ Rerun \/ ProcessGroup \/ Summary

Spec == Init /\ [][Next]_vars


----------------------------------------------------------------------------
(* Vocabulary of the properties *)

\* process_virtual_chassis has acted on a group in the current run
Acted == pre.path # "none"

\* the group it acted on last
LastIdx == IF pc = "raised" THEN idx ELSE idx - 1

LastName == device_groups[LastIdx].device_name

LastMembers == device_groups[LastIdx].members

\* the world process_virtual_chassis started from
PreWorld == World(pre.store, pre.stats, create_missing, 0)

\* it returned, and no store write failed in it
Normal == Acted /\ ~pre.fired /\ pc # "raised"

DistinctIds(members) ==
    \A i, j \in 1..Len(members) :
        i # j => members[i].member_id # members[j].member_id

Resolvable(member_data) ==
    get_or_create_device_type(PreWorld, member_data.model).ret # NoStr

DevicesNamed(st, name) ==
    {i \in 1..Len(st.devices) : st.devices[i].name = name}

\* no device carries the name of a member of the last group
NoMemberDevice ==
    \A i \in 1..Len(LastMembers) :
        DevicesNamed(pre.store, MemberName(LastName, LastMembers[i].member_id))
            = {}

\* what a sequence gained since an earlier value of it
Gained(before, after) == SubSeq(after, Len(before) + 1, Len(after))

IsPrefix(before, after) ==
    /\ Len(before) <= Len(after)
    /\ SubSeq(after, 1, Len(before)) = before

\* store b holds every device and virtual chassis of store a, each device
\* with the name, serial, device type, role and site it had
Extends(a, b) ==
    /\ Len(a.devices) <= Len(b.devices)
    /\ \A i \in 1..Len(a.devices) :
         /\ b.devices[i].name = a.devices[i].name
         /\ b.devices[i].serial = a.devices[i].serial
         /\ b.devices[i].device_type = a.devices[i].device_type
         /\ b.devices[i].device_role = a.devices[i].device_role
         /\ b.devices[i].site = a.devices[i].site
    /\ Len(a.vcs) <= Len(b.vcs)
    /\ \A v \in 1..Len(a.vcs) : b.vcs[v].name = a.vcs[v].name

----------------------------------------------------------------------------
(* Properties *)

\* C1: a run repeated on the same file, from the store an error-free first
\* run left (no error, no warning, no store failure), creates no device and
\* no virtual chassis and records no error and no mismatch.
C1_Idempotent ==
    (pc = "done" /\ runs >= 2 /\ hist.prevClean /\ faults = hist.faults0) =>
        /\ stats.devices_created = 0
        /\ stats.virtual_chassis_created = 0
        /\ stats.errors = <<>>
        /\ stats.serial_mismatches = <<>>
        /\ stats.vc_mismatches = <<>>

\* C2: a group of several members (distinct member ids), with no device
\* named after the group or one of its members and no virtual chassis for
\* it, role and device types resolvable, no store failure: exactly one
\* virtual chassis and one device per member are created, each member's
\* device is attached at its member id, and the master reference is the
\* device of the smallest member id, whichever member is tagged master.
C2_MultiMemberFresh ==
    (/\ Normal
     /\ pre.path = "fresh"
     /\ Len(LastMembers) > 1
     /\ DistinctIds(LastMembers)
     /\ NoMemberDevice
     /\ \A i \in 1..Len(LastMembers) : Resolvable(LastMembers[i])) =>
        LET vc == Len(store.vcs)
            ids == {LastMembers[i].member_id : i \in 1..Len(LastMembers)}
        IN /\ Len(store.vcs) = Len(pre.store.vcs) + 1
           /\ IsPrefix(pre.store.vcs, store.vcs)
           /\ store.vcs[vc].name = LastName
           /\ stats.virtual_chassis_created =
                  pre.stats.virtual_chassis_created + 1
           /\ Len(store.devices) = Len(pre.store.devices) + Len(LastMembers)
           /\ IsPrefix(pre.store.devices, store.devices)
           /\ stats.devices_created =
                  pre.stats.devices_created + Len(LastMembers)
           /\ \A i \in 1..Len(LastMembers) :
                LET named == DevicesNamed(store,
                                 MemberName(LastName, LastMembers[i].member_id))
                IN /\ Cardinality(named) = 1
                   /\ \A d \in named :
                        /\ store.devices[d].virtual_chassis = vc
                        /\ store.devices[d].vc_position =
                               LastMembers[i].member_id
                        /\ store.devices[d].serial = LastMembers[i].serial
           /\ store.vcs[vc].master # NoRef
           /\ store.devices[store.vcs[vc].master].name =
                  MemberName(LastName, Min(ids))

\* C2's case: such a group, whose second member carries the master tag
C2_Witness ==
    /\ Normal
    /\ pre.path = "fresh"
    /\ Len(LastMembers) = 2
    /\ DistinctIds(LastMembers)
    /\ NoMemberDevice
    /\ \A i \in 1..Len(LastMembers) : Resolvable(LastMembers[i])
    /\ LastMembers[1].role = "linecard"
    /\ LastMembers[2].role = "master"
    /\ Len(store.vcs) = Len(pre.store.vcs) + 1
    /\ store.devices[store.vcs[Len(store.vcs)].master].name =
           MemberName(LastName, LastMembers[1].member_id)

\* C3: a group of one member, with no device and no virtual chassis for
\* its identifier, role and device type resolvable, no store failure:
\* exactly one device is created, with the member's name and serial and no
\* virtual chassis, no virtual chassis is created, and devices_created
\* grows by exactly 1.
C3_SingleMemberFresh ==
    (/\ Normal
     /\ pre.path = "fresh"
     /\ Len(LastMembers) = 1
     /\ Resolvable(LastMembers[1])) =>
        /\ Len(store.devices) = Len(pre.store.devices) + 1
        /\ IsPrefix(pre.store.devices, store.devices)
        /\ LET d == store.devices[Len(store.devices)]
           IN /\ d.name = MemberName(LastName, LastMembers[1].member_id)
              /\ d.serial = LastMembers[1].serial
              /\ d.virtual_chassis = NoRef
        /\ store.vcs = pre.store.vcs
        /\ stats.devices_created = pre.stats.devices_created + 1
        /\ stats.virtual_chassis_created = pre.stats.virtual_chassis_created

\* C3's case: a single-member group was processed on a store holding
\* nothing for it
C3_Witness ==
    /\ Normal
    /\ pre.path = "fresh"
    /\ Len(LastMembers) = 1
    /\ Resolvable(LastMembers[1])
    /\ Len(store.devices) = Len(pre.store.devices) + 1
    /\ store.vcs = pre.store.vcs

\* the serial mismatches the last group added for the device named name
NewSerialMismatches(name) ==
    LET new == Gained(pre.stats.serial_mismatches, stats.serial_mismatches)
    IN {k \in 1..Len(new) : new[k].device = name}

\* C4: every device the last group met in the store (the bare device
\* named after the group; a member-named device under an existing virtual
\* chassis; a member-named device attached by create_virtual_chassis) whose
\* stored serial differs from the import's gets exactly one serial mismatch,
\* and keeps its stored serial.
C4_SerialDrift ==
    (Normal /\ DistinctIds(LastMembers)) =>
        /\ pre.path = "bare" =>
             LET d == DeviceByName(PreWorld, LastName)
             IN pre.store.devices[d].serial # MasterMember(LastMembers).serial
                => /\ Cardinality(NewSerialMismatches(LastName)) = 1
                   /\ store.devices[d].serial = pre.store.devices[d].serial
        /\ \A i \in 1..Len(LastMembers) :
             LET name == MemberName(LastName, LastMembers[i].member_id)
                 d == DeviceByName(PreWorld, name)
             IN (/\ d # NoRef
                 /\ pre.store.devices[d].serial # LastMembers[i].serial
                 /\ \/ pre.path = "verify"
                    \/ store.devices[d].virtual_chassis #
                           pre.store.devices[d].virtual_chassis)
                => /\ Cardinality(NewSerialMismatches(name)) = 1
                   /\ store.devices[d].serial = pre.store.devices[d].serial

\* C5: under an existing virtual chassis, a stored member count that
\* differs from the group's size adds exactly one member-count mismatch,
\* with expected the group's size and actual the count taken before any
\* missing member is created; equal counts add none; and every device of
\* the store is still there, attached as it was.
C5_MemberCount ==
    (Acted /\ pre.path = "verify") =>
        LET vc == VcByMasterName(PreWorld, LastName)
            count == VcMemberCount(PreWorld, vc)
            new == Gained(pre.stats.vc_mismatches, stats.vc_mismatches)
        IN /\ IsPrefix(pre.stats.vc_mismatches, stats.vc_mismatches)
           /\ count # Len(LastMembers) =>
                new = <<[vc |-> pre.store.vcs[vc].name,
                         issue |-> "member_count",
                         expected |-> Len(LastMembers), actual |-> count]>>
           /\ count = Len(LastMembers) => new = <<>>
           /\ Len(pre.store.devices) <= Len(store.devices)
           /\ \A d \in 1..Len(pre.store.devices) :
                store.devices[d].virtual_chassis =
                    pre.store.devices[d].virtual_chassis

\* C5's case: the counts differ and a missing member was created after the
\* count was taken
C5_Witness ==
    /\ Acted
    /\ pre.path = "verify"
    /\ VcMemberCount(PreWorld, VcByMasterName(PreWorld, LastName))
           > Len(LastMembers)
    /\ Len(store.devices) > Len(pre.store.devices)
    /\ Len(stats.vc_mismatches) = Len(pre.stats.vc_mismatches) + 1

\* C6: whatever fails inside a group, the run goes on to every later group
\* and ends with its summary.
C6_Bulkhead ==
    (pc \in {"done", "raised"} /\ hist.nbad = 0) =>
        /\ pc = "done"
        /\ idx > Len(device_groups)

\* C7: a file with rows whose ID is no integer is read to its end: those
\* rows are dropped with a warning each, all other rows are grouped, and the
\* run processes the groups.
C7_BadRowSkipped ==
    (pc \in {"done", "raised"} /\ hist.nbad > 0) =>
        /\ pc = "done"
        /\ Len(stats.warnings) >= hist.nbad
        /\ hist.nrows - hist.nbad > 0 => device_groups # <<>>

\* C8: when the role of the group's identifier is not in the store (and
\* platform resolution returned), the group adds exactly one error, counts
\* every member as skipped, and leaves devices, virtual chassis, the other
\* counters and the mismatch lists as they were.
C8_NoRole ==
    (Acted /\ pre.path = "no_role") =>
        /\ pc # "raised"
        /\ stats.errors =
               Append(pre.stats.errors,
                      [kind |-> "no_device_role", device |-> LastName])
        /\ stats.devices_skipped =
               pre.stats.devices_skipped + Len(LastMembers)
        /\ store.devices = pre.store.devices
        /\ store.vcs = pre.store.vcs
        /\ stats.devices_created = pre.stats.devices_created
        /\ stats.devices_updated = pre.stats.devices_updated
        /\ stats.virtual_chassis_created = pre.stats.virtual_chassis_created
        /\ stats.virtual_chassis_updated = pre.stats.virtual_chassis_updated
        /\ stats.serial_mismatches = pre.stats.serial_mismatches
        /\ stats.vc_mismatches = pre.stats.vc_mismatches

\* C8's case: a group of two members whose role is not in the store
C8_Witness ==
    /\ Acted
    /\ pre.path = "no_role"
    /\ Len(LastMembers) = 2
    /\ stats.devices_skipped = pre.stats.devices_skipped + 2
    /\ Len(stats.errors) = Len(pre.stats.errors) + 1

\* C9: with auto-creation off, on a store holding nothing for the group, the
\* members whose device type does not resolve are each counted once in
\* devices_skipped, and every other member gets its device.
C9_SkipOnlyThatMember ==
    (/\ Normal
     /\ ~create_missing
     /\ pre.path = "fresh"
     /\ DistinctIds(LastMembers)
     /\ NoMemberDevice) =>
        LET bad == {i \in 1..Len(LastMembers) : ~Resolvable(LastMembers[i])}
        IN /\ stats.devices_skipped =
                  pre.stats.devices_skipped + Cardinality(bad)
           /\ \A i \in (1..Len(LastMembers)) \ bad :
                Cardinality(DevicesNamed(store,
                    MemberName(LastName, LastMembers[i].member_id))) = 1

\* C10: no device and no virtual chassis ever leaves the store, and a
\* device keeps its name, serial, device type, role and site: against the
\* store before the last group, at the start of the run, and before the
\* first run.
C10_StoreOnlyGrows ==
    /\ Extends(pre.store, store)
    /\ Extends(hist.start, store)
    /\ Extends(hist.origin, store)

\* C10's case: a device that was in the store before the first run has been
\* attached to a virtual chassis created since
C10_Witness ==
    \E d \in 1..Len(hist.origin.devices) :
        /\ store.devices[d].virtual_chassis # NoRef
        /\ store.devices[d].virtual_chassis > Len(hist.origin.vcs)
        /\ store.devices[d].vc_position # hist.origin.devices[d].vc_position

----------------------------------------------------------------------------
(* The virtual chassis import job (jobs/import_devices.py).  Its members    *)
(* are the rows of the file as read: ID, Serial and Role are texts.  Its    *)
(* store holds devices, virtual chassis, locations and device types, and    *)
(* whether the manufacturer, the role, the platform and the status exist.   *)

\* f"{parts[1]}-{parts[2]}": the location code, by its two tokens
location_code(parts) == <<parts[2], parts[3]>>

\* the keys of LOCATION_MAPPING and the names they map to
LOCATION_MAPPING(code) ==
    IF code = <<"arl", "art">> THEN "Arlington Tower" ELSE NoStr

\* the location codes a location name contains, in lower case
CodesIn(name) ==
    CASE name = "Bldg A-1" -> {<<"a", "1">>}
      [] name = "A-1 Annex" -> {<<"a", "1">>}
      [] OTHER -> {}

\* name__icontains=location_code
IContains(name, code) == <<Lower(code[1]), Lower(code[2])>> \in CodesIn(name)

\* the location of a device name, None when none or no single one is found;
\* Location.objects.get(name=) raises when several carry the mapped name
get_location_from_device_name(w, device_name) ==
    IF Len(device_name) < 3 THEN Ret(w, NoRef)
    ELSE LET code == location_code(device_name)
             locations == w.store.locations
             mapped == {i \in 1..Len(locations) :
                          locations[i] = LOCATION_MAPPING(code)}
             found == {i \in 1..Len(locations) : IContains(locations[i], code)}
         IN IF LOCATION_MAPPING(code) # NoStr
            THEN IF Cardinality(mapped) > 1 THEN Ret(Raise(w), NoRef)
                 ELSE Ret(w, First(mapped))
            ELSE IF Cardinality(found) = 1 THEN Ret(w, First(found))
                 ELSE Ret(w, NoRef)

\* get_or_create of a record the store holds one of: a write when missing;
\* not reached when an exception is propagating
get_or_create_ref(w, field) ==
    IF w.exc \/ w.store[field] THEN w
    ELSE IF WillFail(w) THEN Raise(Tick(w))
    ELSE [Tick(w) EXCEPT !.store = [@ EXCEPT ![field] = TRUE]]

get_device_type(w, model) ==
    LET model_upper == Upper(Strip(model))
        dtypes == w.store.dtypes
        matches == {k \in 1..Len(dtypes) :
                      Lower(dtypes[k]) = Lower(model_upper)}
        w1 == get_or_create_ref(w, "manufacturer")
    IN IF Cardinality(matches) = 1 THEN Ret(w, dtypes[First(matches)])
       ELSE IF Cardinality(matches) > 1 THEN Ret(Raise(w), NoStr)
       ELSE IF w1.exc THEN Ret(w1, NoStr)
       ELSE IF WillFail(w1) THEN Ret(Raise(Tick(w1)), NoStr)
       ELSE Ret([Tick(w1) EXCEPT !.store.dtypes = Append(@, model_upper)],
                model_upper)

get_vc_priority(role) ==
    LET role_lower == Lower(Strip(role))
    IN IF role_lower = "master" THEN 255
       ELSE IF role_lower = "backup" THEN 128 ELSE 1

\* f"{device_name}-member-{member['ID']}"
ImportMemberName(device_name, id) == device_name \o <<"member", id>>

\* next((m for m in members if m['Role'].strip().lower() == 'master'),
\*      members[0])
ImportMasterMember(members) ==
    LET tagged == {i \in 1..Len(members) :
                     Lower(Strip(members[i].Role)) = "master"}
    IN IF tagged = {} THEN members[1] ELSE members[Min(tagged)]

RECURSIVE import_member_loop(_, _, _, _, _, _, _)
\* create_new_device: the loop that creates the devices of the members
\* other than the master, at member i
import_member_loop(w, vc, device_name, device_type, location, members, i) ==
    IF i > Len(members) \/ w.exc THEN w
    ELSE IF members[i].ID = ImportMasterMember(members).ID
         THEN import_member_loop(w, vc, device_name, device_type, location,
                                 members, i + 1)
    ELSE Only({import_member_loop(m.w, vc, device_name, device_type,
                                  location, members, i + 1) :
               m \in {DeviceCreate(w, DeviceRec(
                         ImportMemberName(device_name, members[i].ID),
                         "Access", device_type, Strip(members[i].Serial),
                         location, vc, ParseInt(members[i].ID),
                         get_vc_priority(members[i].Role)))}})

\* vc.master = master_device; vc.save()
import_set_master(w, vc, master_device) ==
    IF WillFail(w) THEN Raise(Tick(w))
    ELSE [Tick(w) EXCEPT !.store.vcs[vc].master = master_device]

\* a master device created without its position
master_device_record_unpositioned(device_name, master_member, device_type, location, vc) ==
    DeviceRec(device_name, "Access", device_type,
              Strip(master_member.Serial), location, vc, None,
              get_vc_priority(master_member.Role))

\* the keyword arguments of the master device's Device.objects.create
master_device_record(device_name, master_member, device_type, location, vc) ==
    DeviceRec(device_name, "Access", device_type,
              Strip(master_member.Serial), location, vc,
              ParseInt(master_member.ID),
              get_vc_priority(master_member.Role))

\* the master device of virtual chassis v.ret, the master reference and
\* the member devices
import_create_devices(v, device_name, members, device_type, location) ==
    LET master_member == ImportMasterMember(members)
    IN IF v.w.exc THEN v.w
       ELSE Only({
           IF m.w.exc THEN m.w
           ELSE Only({import_member_loop(w3, v.ret, device_name, device_type,
                                         location, members, 1) :
                      w3 \in {import_set_master(m.w, v.ret, m.ret)}}) :
           m \in {DeviceCreate(v.w, master_device_record(
                     device_name, master_member, device_type, location,
                     v.ret))}})

\* the virtual chassis, the master device and the member devices
import_create_entities(w, device_name, members, device_type, location) ==
    Only({import_create_devices(v, device_name, members, device_type,
                                location) :
          v \in {VirtualChassisCreate(w, device_name, NoRef)}})

\* create_new_device once the location l.ret and the device type t.ret are
\* known: the role, the platform, the status, then the entities
create_in_location(l, t, device_name, members) ==
    Only({IF w3.exc THEN w3
          ELSE import_create_entities(w3, device_name, members, t.ret, l.ret) :
          w3 \in {get_or_create_ref(get_or_create_ref(get_or_create_ref(
                      t.w, "role"), "platform"), "status")}})

\* the result of create_new_device; an exception propagates
create_new_device(w0, device_name, members) ==
    LET failed(w) == Ret(w, [status |-> "raised", mismatches |-> <<>>])
        created(w) == IF w.exc THEN failed(w)
                      ELSE Ret(w, [status |-> "created", mismatches |-> <<>>])
    IN Only({
        IF l.w.exc THEN failed(l.w)
        ELSE IF l.ret = NoRef THEN failed(Raise(l.w))
        ELSE Only({
            IF t.w.exc THEN failed(t.w)
            ELSE Only({created(w4) :
                       w4 \in {create_in_location(l, t, device_name,
                                                  members)}}) :
            t \in {get_device_type(l.w,
                                   ImportMasterMember(members).Model)}}) :
        l \in {get_location_from_device_name(w0, device_name)}})

RECURSIVE validate_members(_, _, _, _, _)
\* validate_existing_device: the loop over the rows of the group, at row i;
\* the mismatches, and whether vc_members.get raised on finding several
validate_members(st, device, members, i, mismatches) ==
    IF i > Len(members) THEN [raised |-> FALSE, mismatches |-> mismatches]
    ELSE LET vc == st.devices[device].virtual_chassis
             vc_pos == ParseInt(members[i].ID)
             csv_serial == Strip(members[i].Serial)
             at == {d \in 1..Len(st.devices) :
                      /\ st.devices[d].virtual_chassis = vc
                      /\ st.devices[d].vc_position = vc_pos}
         IN IF Cardinality(at) > 1
            THEN [raised |-> TRUE, mismatches |-> mismatches]
            ELSE IF at = {}
            THEN validate_members(st, device, members, i + 1,
                     Append(mismatches, [kind |-> "missing_member",
                                         position |-> vc_pos]))
            ELSE IF st.devices[First(at)].serial # csv_serial
            THEN validate_members(st, device, members, i + 1,
                     Append(mismatches,
                            [kind |-> "serial", position |-> vc_pos,
                             nautobot |-> st.devices[First(at)].serial,
                             csv |-> csv_serial]))
            ELSE validate_members(st, device, members, i + 1, mismatches)

\* a validation that does not compare the member count
validate_existing_device_uncounted(w, device, members) ==
    LET st == w.store
        vc == st.devices[device].virtual_chassis
        checked == IF vc = NoRef
                   THEN [raised |-> FALSE,
                         mismatches |-> <<[kind |-> "no_virtual_chassis"]>>]
                   ELSE validate_members(st, device, members, 1, <<>>)
    IN IF checked.raised
       THEN Ret(Raise(w), [status |-> "raised", mismatches |-> <<>>])
       ELSE Ret(w, [status |-> "validated",
                    mismatches |-> checked.mismatches])

validate_existing_device(w, device, members) ==
    LET st == w.store
        vc == st.devices[device].virtual_chassis
        count == Cardinality({d \in 1..Len(st.devices) :
                                st.devices[d].virtual_chassis = vc})
        counted == IF count # Len(members)
                   THEN <<[kind |-> "member_count",
                           expected |-> Len(members), found |-> count]>>
                   ELSE <<>>
        checked == IF vc = NoRef
                   THEN [raised |-> FALSE,
                         mismatches |-> <<[kind |-> "no_virtual_chassis"]>>]
                   ELSE validate_members(st, device, members, 1, counted)
    IN IF checked.raised
       THEN Ret(Raise(w), [status |-> "raised", mismatches |-> <<>>])
       ELSE Ret(w, [status |-> "validated",
                    mismatches |-> checked.mismatches])

\* where sorted() puts row m among the already sorted rows
InsertRow(sorted, m) ==
    LET k == Cardinality({j \in 1..Len(sorted) :
                            ParseInt(sorted[j].ID) <= ParseInt(m.ID)})
    IN SubSeq(sorted, 1, k) \o <<m>> \o SubSeq(sorted, k + 1, Len(sorted))

RECURSIVE SortRows(_)
\* sorted(members, key=lambda x: int(x['ID']))
SortRows(members) ==
    IF members = <<>> THEN <<>>
    ELSE InsertRow(SortRows(SubSeq(members, 1, Len(members) - 1)),
                   members[Len(members)])

\* a process_device that does not look the device up and always creates
process_device_create_always(w, device_name, members) ==
    IF \E i \in 1..Len(members) : ~IsIntText(members[i].ID)
    THEN Ret(Raise(w), [status |-> "raised", mismatches |-> <<>>])
    ELSE create_new_device(w, device_name, SortRows(members))

\* the result of process_device; an exception propagates: int() of an ID
\* that is no integer, Device.objects.get finding several devices
process_device(w, device_name, members) ==
    LET named == {d \in 1..Len(w.store.devices) :
                    w.store.devices[d].name = device_name}
    IN IF \E i \in 1..Len(members) : ~IsIntText(members[i].ID)
       THEN Ret(Raise(w), [status |-> "raised", mismatches |-> <<>>])
       ELSE IF Cardinality(named) > 1
       THEN Ret(Raise(w), [status |-> "raised", mismatches |-> <<>>])
       ELSE IF named = {}
       THEN create_new_device(w, device_name, SortRows(members))
       ELSE validate_existing_device(w, First(named), SortRows(members))

RECURSIVE group_by_device(_, _, _)
\* run: devices_data[row['Device'].strip()].append(row), at row i
group_by_device(rows, i, groups) ==
    IF i > Len(rows) THEN groups
    ELSE LET device_name == StripName(rows[i].Device)
             at == First({g \in 1..Len(groups) :
                            groups[g].device_name = device_name})
         IN IF at = NoRef
            THEN group_by_device(rows, i + 1,
                     Append(groups, [device_name |-> device_name,
                                     members |-> <<rows[i]>>]))
            ELSE group_by_device(rows, i + 1,
                     [groups EXCEPT ![at].members = Append(@, rows[i])])

EmptyResults ==
    [created |-> <<>>, validated |-> <<>>, errors |-> <<>>,
     mismatches |-> <<>>]

\* the body of run's loop on one group, exceptions caught: the results
\* after it
record_result(results, device_name, result) ==
    IF result.status = "created"
    THEN [results EXCEPT !.created = Append(@, device_name)]
    ELSE IF result.status = "validated"
    THEN [results EXCEPT !.validated = Append(@, device_name),
                         !.mismatches = @ \o result.mismatches]
    ELSE [results EXCEPT !.errors =
             Append(@, [device |-> device_name, error |-> result.status])]

----------------------------------------------------------------------------
(* The CreateVirtualChassis job (jobs/job2.py).  Its store holds devices,   *)
(* virtual chassis and platforms; names are strings put together as the     *)
(* code does; an interface name is the sequence of the pieces str.replace   *)
(* and the substring test work on ("ge-0/0/0" is <<"ge", "-0/", "0/0">>).   *)
(* validated_save is full_clean, which raises on a field that does not      *)
(* convert and on a broken uniqueness constraint, followed by save.         *)

dedup_intfs == {"irb", "irb.5", "ae0", "vme", "vlan", "lo0", "mgmt"}

\* the interfaces a device gets from the interface templates of its type
TemplateInterfaces(manufacturer) ==
    CASE manufacturer = "Juniper" -> <<(<<"ge", "-0/", "0/0">>), <<"vme">>>>
      [] manufacturer = "Aruba" -> <<(<<"1/", "1/", "1">>), <<"mgmt">>>>
      [] OTHER -> <<(<<"eth0">>)>>

\* the result of a step of run: whether it raised, and the store after it
Job2Ret(ok, st) == [ok |-> ok, store |-> st]

\* Platform.objects.get of the manufacturer's platform: unbound for another
\* manufacturer, an exception when the store has no such platform
platform_of(st, manufacturer) ==
    LET name == CASE manufacturer = "Juniper" -> "Juniper_junos"
                  [] manufacturer = "Aruba" -> "AOSCX"
                  [] OTHER -> NoStr
    IN [raised |-> name # NoStr /\ name \notin st.platforms,
        platform |-> name]

\* the Device the loop builds for a member, the role check applied
vc_member_record(data, member, virtual_chassis, platform) ==
    LET position == IF member.member_position = "0" THEN ""
                    ELSE ":" \o member.member_position
    IN [name |-> data.hostname \o position,
        site |-> data.site,
        serial |-> member.serial,
        virtual_chassis |-> virtual_chassis,
        vc_position |-> IF IsIntText(member.member_position)
                        THEN ParseInt(member.member_position) ELSE None,
        vc_priority |-> IF member.member_role = "routing-engine" THEN 1
                        ELSE None,
        platform |-> platform,
        interfaces |-> TemplateInterfaces(data.manufacturer)]

\* full_clean of a new device: the position is an integer, no device of the
\* site carries the name, no device of the virtual chassis has the position
device_is_valid(st, member, device) ==
    /\ IsIntText(member.member_position)
    /\ \A d \in 1..Len(st.devices) :
          /\ ~(st.devices[d].name = device.name
                /\ st.devices[d].site = device.site)
          /\ ~(st.devices[d].virtual_chassis = device.virtual_chassis
                /\ st.devices[d].vc_position = device.vc_position)

\* intf.name.replace(old, new), piece by piece
ReplacePiece(name, old, new) ==
    [i \in 1..Len(name) |-> IF name[i] = old THEN new ELSE name[i]]

\* the interface after the loop over rename_interfaces, the empty sequence
\* when it was deleted
renamed_interface(name, manufacturer, member_position) ==
    IF \E i \in 1..Len(name) : name[i] \in dedup_intfs THEN <<>>
    ELSE IF manufacturer = "Juniper"
    THEN ReplacePiece(name, "-0/", "-" \o member_position \o "/")
    ELSE IF manufacturer = "Aruba"
    THEN ReplacePiece(name, "1/",
                      IntText(ParseInt(member_position) + 1) \o "/")
    ELSE name

\* the interfaces of a member that is not the master, after the renaming
rename_interfaces(interfaces, manufacturer, member_position) ==
    SelectSeq([i \in 1..Len(interfaces) |->
                  renamed_interface(interfaces[i], manufacturer,
                                    member_position)],
              LAMBDA name : name # <<>>)

\* the master member check of the loop
member_is_master(mems, i) == mems[i].member_position = "0"

RECURSIVE job2_member_loop(_, _, _, _, _, _)
\* run: the loop over the members, at member i
job2_member_loop(st, data, virtual_chassis, platform, mems, i) ==
    IF i > Len(mems) THEN Job2Ret(TRUE, st)
    ELSE IF platform = NoStr THEN Job2Ret(FALSE, st)
    ELSE LET vc_member == vc_member_record(data, mems[i], virtual_chassis,
                                           platform)
             device == Len(st.devices) + 1
             saved == [st EXCEPT !.devices = Append(@, vc_member)]
         IN IF ~device_is_valid(st, mems[i], vc_member)
            THEN Job2Ret(FALSE, st)
            ELSE IF member_is_master(mems, i)
            THEN job2_member_loop(
                     [saved EXCEPT !.vcs[virtual_chassis].master = device],
                     data, virtual_chassis, platform, mems, i + 1)
            ELSE job2_member_loop(
                     [saved EXCEPT !.devices[device].interfaces =
                         rename_interfaces(@, data.manufacturer,
                                           mems[i].member_position)],
                     data, virtual_chassis, platform, mems, i + 1)

\* CreateVirtualChassis.run on the store st with the form data
CreateVirtualChassis_run(st, data) ==
    LET virtual_chassis == Len(st.vcs) + 1
        created == [st EXCEPT !.vcs = Append(@, [name |-> data.hostname,
                                                 master |-> NoRef])]
        p == platform_of(st, data.manufacturer)
    IN IF \E v \in 1..Len(st.vcs) : st.vcs[v].name = data.hostname
       THEN Job2Ret(FALSE, st)
       ELSE IF p.raised THEN Job2Ret(FALSE, created)
       ELSE job2_member_loop(created, data, virtual_chassis, p.platform,
                             data.members, 1)

----------------------------------------------------------------------------
(* SpecProbe: the identifier parser, the resolvers, the row grouper and     *)
(* the CreateVirtualChassis job, each applied once to drawn inputs          *)

MaxTokens == 4

MaxSites == 2

MaxCsv == 3

MaxGroup == 3

MaxTypes == 2

MaxMembers == 2

\* first tokens: the keys of role_mapping, one of them capitalised, a token
\* that is no key, and the empty token
RoleTokens == {"accs", "Dist", "core", "edge", "aggr", "sw", ""}

\* later tokens: a facility, a number, the empty token
FacTokens == {"a", "414", ""}

\* device names by their tokens, with the names of the docstrings
Identifiers ==
    {<<r>> \o rest : r \in RoleTokens,
                     rest \in SeqsUpTo(FacTokens, MaxTokens - 1)}
    \cup {<<"accs", "arl", "art", "1550", "1">>, <<"accs", "ho", "414", "1">>,
          <<"dist", "ho", "414", "1">>}

SiteRecs == [name : {"Site"}, facility : {"A", "a", "HO", ""}, region : {"R1"}]

\* the sites of the store, in primary-key order
SiteTables == SeqsUpTo(SiteRecs, MaxSites)

FacilityCodes == {"A", "a", "HO", "", NoStr}

PaddedX == <<" accs", "a", "1 ">>

ProbeRows ==
    [Device : {GroupX, PaddedX, GroupY}, ID : {"0", "1"}, Model : {"ex1"},
     Serial : {"S1", "S2"}, Role : {"master"}]

ProbeCsvInputs == SeqsUpTo(ProbeRows, MaxCsv)

\* the rows of one group, in file order: every member id with the role
\* tags master (as written, capitalised, padded) and linecard
GroupRows ==
    [Device : {GroupX}, ID : {"0", "1", "2"}, Model : {"ex1"},
     Serial : {"S1"}, Role : {"master", "Master", " master", "linecard"}]

GroupInputs == SeqsUpTo(GroupRows, MaxGroup) \ {<<>>}

IdentProbe(d, t) ==
    [kind |-> "ident", ident |-> d, sites |-> t, rows |-> <<>>,
     op |-> "none", arg |-> NoStr, out |-> NoStr]

CsvProbe(r) ==
    [kind |-> "csv", ident |-> <<>>, sites |-> <<>>, rows |-> r,
     op |-> "none", arg |-> NoStr, out |-> NoStr]

\* the models of the rows and the device types of the store: a model in
\* every case, with and without the manufacturer's prefix
ProbeModels == {"ex1", "Ex1", "zz"}

ProbeTypeNames ==
    {"ex1", "Ex1", "EX1", "Juniper ex1", "Juniper Ex1", "Juniper EX1",
     "JUNIPER EX1"}

\* the device types of the store, in primary-key order
TypeTables == SeqsUpTo(ProbeTypeNames, MaxTypes)

TypeProbe(t, m, cm) ==
    [kind |-> "dtype", dtypes |-> t, model |-> m, create_missing |-> cm,
     op |-> "none", arg |-> NoStr, out |-> NoStr]

\* the rows of the members text: every position, one that is no integer,
\* and both member roles
MemberRows ==
    [serial : {"S1"}, member_role : {"routing-engine", "linecard"},
     member_position : {"0", "1", "2", "x"}]

MemberInputs == SeqsUpTo(MemberRows, MaxMembers)

Manufacturers == {"Juniper", "Aruba", "Other"}

\* stores the CreateVirtualChassis job may find: nothing but the
\* platforms, no platform, a device of the hostname in the site
ChassisStores ==
    { [devices |-> <<>>, vcs |-> <<>>,
       platforms |-> {"Juniper_junos", "AOSCX"}],
      [devices |-> <<>>, vcs |-> <<>>, platforms |-> {}],
      [devices |-> <<[name |-> "sw1", site |-> 1, serial |-> "S0",
                      virtual_chassis |-> NoRef, vc_position |-> None,
                      vc_priority |-> None, platform |-> "Juniper_junos",
                      interfaces |-> TemplateInterfaces("Juniper")]>>,
       vcs |-> <<>>, platforms |-> {"Juniper_junos", "AOSCX"}] }

ChassisProbe(st, manufacturer, members) ==
    [kind |-> "chassis", store |-> st,
     data |-> [hostname |-> "sw1", site |-> 1,
               manufacturer |-> manufacturer, members |-> members],
     op |-> "none", arg |-> NoStr, out |-> NoStr]

GroupProbe(r) ==
    [kind |-> "group", ident |-> <<>>, sites |-> <<>>, rows |-> r,
     op |-> "none", arg |-> NoStr, out |-> NoStr]

\* the AKIPS job before its first run, on store st
AkipsIdle(st) ==
    /\ store = st
    /\ stats = EmptyStats
    /\ create_missing = FALSE
    /\ device_groups = <<>>
    /\ idx = 1
    /\ pc = "idle"
    /\ runs = 0
    /\ faults = 0
    /\ pre = [store |-> st, stats |-> EmptyStats, fired |-> FALSE,
              path |-> "none"]
    /\ hist = [origin |-> st, start |-> st, nrows |-> 0, nbad |-> 0,
               faults0 |-> 0, prevClean |-> FALSE]

ProbeInit ==
    /\ probe \in {IdentProbe(d, t) : d \in Identifiers, t \in SiteTables}
                 \cup {CsvProbe(r) : r \in ProbeCsvInputs}
                 \cup {GroupProbe(r) : r \in GroupInputs}
                 \cup {TypeProbe(t, m, cm) : t \in TypeTables,
                                             m \in ProbeModels,
                                             cm \in BOOLEAN}
                 \cup {ChassisProbe(st, m, r) : st \in ChassisStores,
                                                m \in Manufacturers,
                                                r \in MemberInputs}
    /\ AkipsIdle(StoreOf(EmptyInventory, TRUE, TRUE, {"Access"}))
    /\ imp = NoImp

Applied(op, arg, out) ==
    /\ probe.op = "none"
    /\ probe' = [probe EXCEPT !.op = op, !.arg = arg, !.out = out]
    /\ UNCHANGED <<akips_vars, imp>>

ProbeFacility ==
    /\ probe.kind = "ident"
    /\ Applied("parse_facility_code", NoStr,
               parse_facility_code(probe.sites, probe.ident))

ProbeRole ==
    /\ probe.kind = "ident"
    /\ Applied("extract_device_role", NoStr, extract_device_role(probe.ident))

\* site, region = find_site_by_facility_code(facility_code)
ProbeSite ==
    /\ probe.kind = "ident"
    /\ \E code \in FacilityCodes :
         LET site == find_site_by_facility_code(probe.sites, code)
         IN Applied("find_site_by_facility_code", code,
                    [site |-> site,
                     region |-> IF site = NoRef THEN NoStr
                                ELSE probe.sites[site].region])

\* the head of process_virtual_chassis on a store with the drawn sites
ProbeGroupSite ==
    /\ probe.kind = "ident"
    /\ LET r == site_of_group(
                    World([store EXCEPT !.sites = probe.sites], EmptyStats,
                          FALSE, 0),
                    probe.ident)
       IN Applied("site_of_group", NoStr,
                  [site |-> r.ret, warnings |-> r.w.stats.warnings])

\* the location code get_location_from_device_name looks up; for a name of
\* fewer than three tokens it computes none (the empty sequence here)
ProbeLocationCode ==
    /\ probe.kind = "ident"
    /\ Applied("location_code", NoStr,
               IF Len(probe.ident) >= 3 THEN location_code(probe.ident)
               ELSE <<>>)

ProbeCsv ==
    /\ probe.kind = "csv"
    /\ Applied("parse_csv", NoStr, parse_csv(probe.rows))

\* the master record process_virtual_chassis takes from the group parse_csv
\* returned for the rows
ProbeMasterMember ==
    /\ probe.kind = "group"
    /\ \E p \in {parse_csv(probe.rows)} :
         Applied("master_member", NoStr,
                 [members |-> p.groups[1].members,
                  master |-> MasterMember(p.groups[1].members)])

\* the master record create_new_device takes from the rows process_device
\* sorted
ProbeImportMasterMember ==
    /\ probe.kind = "group"
    /\ \E members \in {SortRows(probe.rows)} :
         Applied("import_master_member", NoStr,
                 [members |-> members,
                  master |-> ImportMasterMember(members)])

\* get_or_create_device_type on a store with the drawn device types
ProbeDeviceType ==
    /\ probe.kind = "dtype"
    /\ \E r \in {get_or_create_device_type(
                      World([store EXCEPT !.dtypes = probe.dtypes],
                            EmptyStats, probe.create_missing, 0),
                      probe.model)} :
         Applied("get_or_create_device_type", NoStr,
                 [ret |-> r.ret, store |-> r.w.store])

\* a run of the CreateVirtualChassis job
ProbeCreateVirtualChassis ==
    /\ probe.kind = "chassis"
    /\ Applied("CreateVirtualChassis.run", NoStr,
               CreateVirtualChassis_run(probe.store, probe.data))

ProbeNext ==
    \/ ProbeFacility
    \/ ProbeRole
    \/ ProbeSite
    \/ ProbeGroupSite
    \/ ProbeLocationCode
    \/ ProbeCsv
    \/ ProbeMasterMember
    \/ ProbeImportMasterMember
    \/ ProbeDeviceType
    \/ ProbeCreateVirtualChassis

SpecProbe == ProbeInit /\ [][ProbeNext]_vars

----------------------------------------------------------------------------
(* SpecImport: runs of ImportVirtualChassisDevices.  imp holds the store,   *)
(* the rows of the file, the groups run iterates over, its position idx,    *)
(* the results, and as history the store before the last group (pre), the   *)
(* outcome of every group of this run (outcomes) and of the run before      *)
(* (prev).                                                                  *)

ImportDevice(name, serial, vc, vc_position, vc_priority) ==
    DeviceRec(name, "Access", "EX1", serial, 1, vc, vc_position, vc_priority)

\* devices and virtual chassis the store may hold before the first run
ImportInventories ==
    { EmptyInventory,
      \* a device named after the group, in no virtual chassis
      [devices |-> <<ImportDevice(GroupX, "S1", NoRef, None, None)>>,
       vcs |-> <<>>],
      \* a virtual chassis as create_new_device leaves it
      [devices |-> <<ImportDevice(GroupX, "S1", 1, 0, 255),
                     ImportDevice(ImportMemberName(GroupX, "1"), "S1", 1, 1,
                                  1)>>,
       vcs |-> <<StoredVc(GroupX, 1)>>] }

\* provisioned: the store has the device type, the manufacturer, the role,
\* the platform and the status
ImportStoreOf(inv, provisioned) ==
    [devices |-> inv.devices, vcs |-> inv.vcs,
     locations |-> <<"Bldg A-1">>,
     dtypes |-> IF provisioned THEN <<"EX1">> ELSE <<>>,
     manufacturer |-> provisioned, role |-> provisioned,
     platform |-> provisioned, status |-> provisioned]

ImportInitStores ==
    {ImportStoreOf(inv, TRUE) : inv \in ImportInventories}
    \cup {ImportStoreOf(EmptyInventory, FALSE)}

\* Rows of the file. Group X has a location; its rows take every member id
\* and role tag, one has another serial and one an ID that is no integer.
\* Group Y has no location.
ImportRows ==
    [Device : {GroupX}, ID : {"0", "1"}, Model : {"ex1"}, Serial : {"S1"},
     Role : {"master", "linecard"}]
    \cup [Device : {GroupX}, ID : {"1"}, Model : {"ex1"}, Serial : {"S2"},
          Role : {"linecard"}]
    \cup [Device : {GroupX}, ID : {"x"}, Model : {"ex1"}, Serial : {"S1"},
          Role : {"master"}]
    \cup [Device : {GroupY}, ID : {"0"}, Model : {"ex1"}, Serial : {"S1"},
          Role : {"master"}]

ImportCsvInputs == SeqsUpTo(ImportRows, MaxRows)

ImportInit ==
    /\ imp \in {[store |-> st, rows |-> <<>>, groups |-> <<>>, idx |-> 1,
                 pc |-> "idle", results |-> EmptyResults, runs |-> 0,
                 faults |-> 0, pre |-> [store |-> st, fired |-> FALSE],
                 outcomes |-> <<>>, prev |-> <<>>] : st \in ImportInitStores}
    /\ AkipsIdle(StoreOf(EmptyInventory, TRUE, TRUE, {"Access"}))
    /\ probe = NoProbe

\* run, up to the loop over the groups
ImportStartRun ==
    /\ imp.pc = "idle"
    /\ imp.runs < MaxRuns
    /\ \E csv \in ImportCsvInputs :
         imp' = [imp EXCEPT
                    !.rows = csv,
                    !.groups = group_by_device(csv, 1, <<>>),
                    \* "No data found in CSV": run returns
                    !.pc = IF csv = <<>> THEN "done" ELSE "running",
                    !.idx = 1,
                    !.results = EmptyResults,
                    !.runs = @ + 1,
                    !.pre = [store |-> imp.store, fired |-> FALSE],
                    !.outcomes = <<>>,
                    !.prev = <<>>]
    /\ UNCHANGED <<akips_vars, probe>>

\* run again on the same file
ImportRerun ==
    /\ imp.pc = "done"
    /\ imp.runs < MaxRuns
    /\ imp.rows # <<>>
    /\ imp' = [imp EXCEPT !.pc = "running",
                          !.idx = 1,
                          !.results = EmptyResults,
                          !.runs = @ + 1,
                          !.pre = [store |-> imp.store, fired |-> FALSE],
                          !.outcomes = <<>>,
                          !.prev = imp.outcomes]
    /\ UNCHANGED <<akips_vars, probe>>

\* a loop body that lets the exception of process_device escape
loop_body_uncaught(w, results, device_name, members) ==
    Only({[w |-> r.w, result |-> r.ret,
           results |-> IF r.w.exc THEN results
                       ELSE record_result(results, device_name, r.ret),
           escaped |-> r.w.exc] :
          r \in {process_device(w, device_name, members)}})

\* the body of run's loop: process_device in try/except Exception; escaped
\* says that an exception left the loop
loop_body(w, results, device_name, members) ==
    Only({[w |-> r.w, result |-> r.ret,
           results |-> record_result(results, device_name, r.ret),
           escaped |-> FALSE] :
          r \in {process_device(w, device_name, members)}})

\* one iteration of run's loop
ImportProcessGroup ==
    /\ imp.pc = "running"
    /\ imp.idx <= Len(imp.groups)
    /\ \E f \in FaultPoints :
         \E b \in {loop_body(World(imp.store, EmptyStats, FALSE, f),
                             imp.results, imp.groups[imp.idx].device_name,
                             imp.groups[imp.idx].members)} :
            /\ f # 0 => (imp.faults < MaxFaults /\ b.w.nwrites >= f)
            /\ imp' = [imp EXCEPT
                         !.store = b.w.store,
                         !.results = b.results,
                         !.pc = IF b.escaped THEN "raised" ELSE "running",
                         !.idx = IF b.escaped THEN @ ELSE @ + 1,
                         !.faults = IF f # 0 THEN @ + 1 ELSE @,
                         !.pre = [store |-> imp.store, fired |-> f # 0],
                         !.outcomes = Append(@,
                             [status |-> b.result.status,
                              mismatches |-> b.result.mismatches,
                              ndev |-> Len(b.w.store.devices)
                                         - Len(imp.store.devices),
                              nvc |-> Len(b.w.store.vcs)
                                        - Len(imp.store.vcs)])]
    /\ UNCHANGED <<akips_vars, probe>>

\* the summary, after the last group
ImportSummary ==
    /\ imp.pc = "running"
    /\ imp.idx > Len(imp.groups)
    /\ imp' = [imp EXCEPT !.pc = "done"]
    /\ UNCHANGED <<akips_vars, probe>>

ImportNext ==
    \/ ImportStartRun
    \/ ImportRerun
    \/ ImportProcessGroup
    \/ ImportSummary

SpecImport == ImportInit /\ [][ImportNext]_vars

----------------------------------------------------------------------------
(* Properties of the parser, the resolvers and the row grouper *)

\* the sites whose facility is the code, and those whose facility is the
\* code but for case
ExactSites(sites, code) ==
    {i \in 1..Len(sites) : sites[i].facility = code}

AnyCaseSites(sites, code) ==
    {i \in 1..Len(sites) : Lower(sites[i].facility) = Lower(code)}

\* the positions after the first whose token, upper-cased, resolves to a
\* site, with no digit-leading token after the first up to there
ResolvingTokens(sites, parts) ==
    {i \in 2..Len(parts) :
        /\ AnyCaseSites(sites, Upper(parts[i])) # {}
        /\ \A j \in 2..i : ~StartsWithDigit(parts[j])}

\* C11: parse_facility_code returns the upper-cased first token after the
\* first one that resolves to a site with no digit-leading token up to it,
\* and nothing when the name has fewer than 3 tokens, when a digit-leading
\* token comes before any match, or when no token resolves.
C11_LookupFacility ==
    probe.op = "parse_facility_code" =>
        LET parts == probe.ident
            hits == ResolvingTokens(probe.sites, parts)
        IN probe.out = IF Len(parts) < 3 \/ hits = {} THEN NoStr
                       ELSE Upper(parts[Min(hits)])

\* a later token resolved after one that did not
C11_Witness ==
    /\ probe.op = "parse_facility_code"
    /\ probe.out = "A"
    /\ Len(probe.ident) >= 3
    /\ Min(ResolvingTokens(probe.sites, probe.ident)) > 2

\* the tokens after the first, up to the first digit-leading one
RECURSIVE StructuralRun(_, _)
StructuralRun(parts, i) ==
    IF i > Len(parts) \/ StartsWithDigit(parts[i]) THEN <<>>
    ELSE <<Upper(parts[i])>> \o StructuralRun(parts, i + 1)

\* C12: the facility code get_location_from_device_name derives from a name
\* is the run of tokens after the first up to the first digit-leading one,
\* upper-cased (accs-arl-art-1550-1: ARL-ART, accs-ho-414-1: HO), and
\* nothing when the name has fewer than 3 tokens or the run is empty.
C12_StructuralFacility ==
    probe.op = "location_code" =>
        probe.out = IF Len(probe.ident) < 3 THEN <<>>
                    ELSE StructuralRun(probe.ident, 2)

\* C13: extract_device_role maps the lower-cased first token accs, dist,
\* core, edge, aggr to Access, Distribution, Core, Edge, Aggregation and
\* every other first token, the empty one included, to Access.
C13_RoleTotal ==
    probe.op = "extract_device_role" =>
        LET first_token == Lower(probe.ident[1])
        IN /\ first_token = "accs" => probe.out = "Access"
           /\ first_token = "dist" => probe.out = "Distribution"
           /\ first_token = "core" => probe.out = "Core"
           /\ first_token = "edge" => probe.out = "Edge"
           /\ first_token = "aggr" => probe.out = "Aggregation"
           /\ first_token \notin {"accs", "dist", "core", "edge", "aggr"}
                  => probe.out = "Access"

\* a capitalised key of the table
C13_Witness ==
    /\ probe.op = "extract_device_role"
    /\ probe.ident[1] = "Dist"
    /\ probe.out = "Distribution"

C15_AmbiguousWarning ==
    LET same == {i \in 1..Len(probe.sites) :
                   probe.sites[i].facility =
                       probe.sites[probe.out.site].facility}
    IN (/\ probe.op = "site_of_group"
        /\ probe.out.site # NoRef
        /\ Cardinality(same) > 1) =>
           /\ probe.out.site = Min(same)
           /\ probe.out.warnings # <<>>

\* the stripped Device value of row i
RowName(rows, i) == StripName(rows[i].Device)

\* the rows that open a group: no earlier row has their Device value
FirstSeen(rows) ==
    {i \in 1..Len(rows) : \A j \in 1..(i - 1) : RowName(rows, j) # RowName(rows, i)}

\* the place of row i in its group: after the rows of the group with a
\* smaller member id, and after the earlier rows with the same member id
RankInGroup(rows, i) ==
    Cardinality({j \in 1..Len(rows) :
        /\ RowName(rows, j) = RowName(rows, i)
        /\ \/ ParseInt(rows[j].ID) < ParseInt(rows[i].ID)
           \/ ParseInt(rows[j].ID) = ParseInt(rows[i].ID) /\ j <= i})

\* C16: parse_csv returns one group per distinct stripped Device value, in
\* first-seen order; every row is in the group of its Device value, once;
\* the members of a group are in ascending member id order, rows of equal
\* id in input order.
C16_RowGrouping ==
    (probe.op = "parse_csv" /\ probe.out.ok) =>
        LET rows == probe.rows
            groups == probe.out.groups
            opened == FirstSeen(rows)
            GroupOf(i) ==
                Cardinality({j \in opened :
                    j <= Min({k \in opened :
                                RowName(rows, k) = RowName(rows, i)})})
        IN /\ Len(groups) = Cardinality(opened)
           /\ \A i \in opened : groups[GroupOf(i)].device_name = RowName(rows, i)
           /\ \A g \in 1..Len(groups) :
                  Len(groups[g].members) =
                      Cardinality({i \in 1..Len(rows) :
                                     RowName(rows, i) = groups[g].device_name})
           /\ \A i \in 1..Len(rows) :
                  groups[GroupOf(i)].members[RankInGroup(rows, i)]
                      = MemberOf(rows[i])

\* rows whose Device values differ only by surrounding blanks fall into one
\* group, a later group follows, and the sort moved a row ahead
C16_Witness ==
    /\ probe.op = "parse_csv"
    /\ probe.out.ok
    /\ Len(probe.rows) = 3
    /\ Len(probe.out.groups) = 2
    /\ \E i, j \in 1..Len(probe.rows) :
         /\ i < j
         /\ probe.rows[i].Device # probe.rows[j].Device
         /\ RowName(probe.rows, i) = RowName(probe.rows, j)
         /\ ParseInt(probe.rows[i].ID) > ParseInt(probe.rows[j].ID)

\* the place of the master record in a sorted group, by the role tags of
\* its members: the first tagged master whatever the case, else the first
MasterPlace(tags) ==
    LET tagged == {i \in 1..Len(tags) : Lower(tags[i]) = "master"}
    IN IF tagged = {} THEN 1 ELSE Min(tagged)

\* C21: of a non-empty group sorted by ascending member id, both jobs take
\* as master record the first member whose role tag (trimmed) is 'master'
\* whatever its case, and the first member when none is tagged master; on
\* the same rows the two jobs take the same record.
C21_MasterSelection ==
    /\ probe.op = "master_member" =>
          LET members == probe.out.members
          IN /\ Len(members) = Len(probe.rows)
             /\ \A i \in 1..(Len(members) - 1) :
                    members[i].member_id <= members[i + 1].member_id
             /\ probe.out.master =
                    members[MasterPlace([i \in 1..Len(members) |->
                                           members[i].role])]
    /\ probe.op = "import_master_member" =>
          LET members == probe.out.members
          IN /\ Len(members) = Len(probe.rows)
             /\ \A i \in 1..(Len(members) - 1) :
                    ParseInt(members[i].ID) <= ParseInt(members[i + 1].ID)
             /\ probe.out.master =
                    members[MasterPlace([i \in 1..Len(members) |->
                                           Strip(members[i].Role)])]
             /\ MemberOf(probe.out.master) =
                    MasterMember(parse_csv(probe.rows).groups[1].members)

\* the sort moved a member tagged 'Master' ahead of one tagged 'master' and
\* behind a linecard, and the capitalised one was taken
C21_Witness ==
    /\ probe.op = "master_member"
    /\ Len(probe.rows) = 3
    /\ probe.rows[1].Role = "master"
    /\ probe.rows[1].ID = "2"
    /\ probe.out.members[1].role = "linecard"
    /\ probe.out.members[2].role = "Master"
    /\ probe.out.master = probe.out.members[2]

C32_ParserResolverAgree ==
    probe.op = "site_of_group" =>
        LET facility_code == parse_facility_code(probe.sites, probe.ident)
        IN /\ facility_code # NoStr =>
                  find_site_by_facility_code(probe.sites, facility_code)
                      # NoRef
           /\ probe.out.warnings # <<>> => facility_code = NoStr

----------------------------------------------------------------------------
(* Properties of the virtual chassis import job *)

DistinctRowIds(members) ==
    \A i, j \in 1..Len(members) :
        i # j => ParseInt(members[i].ID) # ParseInt(members[j].ID)

\* the outcome of a group that was validated with nothing to report and
\* nothing created
CleanValidation ==
    [status |-> "validated", mismatches |-> <<>>, ndev |-> 0, nvc |-> 0]

\* C17: a group (distinct member ids) that a run created is, in a second
\* run on the same file against the store the first run left, validated
\* with an empty mismatch list, and no device and no virtual chassis is
\* created for it.
C17_ImportIdempotent ==
    (imp.pc = "done" /\ imp.prev # <<>>) =>
        \A k \in 1..Len(imp.groups) :
            (/\ imp.prev[k].status = "created"
             /\ DistinctRowIds(imp.groups[k].members)) =>
                imp.outcomes[k] = CleanValidation

\* a group of two members went through both runs
C17_Witness ==
    /\ imp.pc = "done"
    /\ imp.prev # <<>>
    /\ \E k \in 1..Len(imp.groups) :
         /\ imp.prev[k].status = "created"
         /\ Len(imp.groups[k].members) = 2
         /\ DistinctRowIds(imp.groups[k].members)
         /\ imp.outcomes[k].status = "validated"

\* C18: a group of several members (distinct member ids) with no device of
\* its name in the store gets exactly one virtual chassis and one device
\* per member, and the master reference of the virtual chassis is the
\* device of the smallest member id.
C18_ImportMultiMember ==
    (/\ imp.pc \in {"running", "done"}
     /\ imp.outcomes # <<>>
     /\ imp.outcomes[Len(imp.outcomes)].status = "created"
     /\ Len(imp.groups[Len(imp.outcomes)].members) > 1
     /\ DistinctRowIds(imp.groups[Len(imp.outcomes)].members)) =>
        LET o == imp.outcomes[Len(imp.outcomes)]
            members == imp.groups[Len(imp.outcomes)].members
            vc == imp.store.vcs[Len(imp.store.vcs)]
        IN /\ o.nvc = 1
           /\ o.ndev = Len(members)
           /\ vc.master # NoRef
           /\ imp.store.devices[vc.master].vc_position =
                  Min({ParseInt(members[i].ID) : i \in 1..Len(members)})

\* C19: an exception raised while a group is processed never leaves run's
\* loop: the run ends with every group processed, and each group whose
\* processing raised has its entry in the errors list.
C19_ImportBulkhead ==
    /\ imp.pc # "raised"
    /\ (imp.pc = "done" /\ imp.rows # <<>>) =>
           LET raised == {k \in 1..Len(imp.outcomes) :
                            imp.outcomes[k].status = "raised"}
           IN /\ Len(imp.outcomes) = Len(imp.groups)
              /\ Len(imp.results.errors) = Cardinality(raised)
              /\ \A k \in raised :
                     \E e \in 1..Len(imp.results.errors) :
                         imp.results.errors[e].device =
                             imp.groups[k].device_name

\* the first group raised and the second one was created
C19_Witness ==
    /\ imp.pc = "done"
    /\ Len(imp.groups) = 2
    /\ imp.outcomes[1].status = "raised"
    /\ imp.outcomes[2].status = "created"

\* the group run's loop processed last, its rows as process_device sorts
\* them, and what came of it
LastGroup == imp.groups[Len(imp.outcomes)]

LastRows == SortRows(LastGroup.members)

LastOutcome == imp.outcomes[Len(imp.outcomes)]

\* the devices of the store before the last group that carry its name
NamedBefore ==
    {d \in 1..Len(imp.pre.store.devices) :
        imp.pre.store.devices[d].name = LastGroup.device_name}

\* the last group went to validate_existing_device: its IDs are integers
\* and one device carries its name
ValidatedCase ==
    /\ imp.pc \in {"running", "done"}
    /\ imp.outcomes # <<>>
    /\ \A i \in 1..Len(LastGroup.members) :
          IsIntText(LastGroup.members[i].ID)
    /\ Cardinality(NamedBefore) = 1

\* the devices of the virtual chassis of device d stored at position pos,
\* before the last group
StoredAt(d, pos) ==
    {m \in 1..Len(imp.pre.store.devices) :
        /\ imp.pre.store.devices[m].virtual_chassis =
               imp.pre.store.devices[d].virtual_chassis
        /\ imp.pre.store.devices[m].vc_position = pos}

\* the number of entries of a kind in a mismatch list
CountKind(mismatches, kind) ==
    Cardinality({j \in 1..Len(mismatches) : mismatches[j].kind = kind})

\* C27: validate_existing_device leaves the whole store as it was.  For a
\* device in a virtual chassis that holds no two devices at one position
\* it returns 'validated' with one entry per row whose position holds a
\* device of another serial, one per row whose position holds no device,
\* one when the member count differs from the number of rows, and no
\* other entry; for a device in no virtual chassis it returns 'validated'
\* with the single entry saying so.
C27_ValidateReportsOnly ==
    ValidatedCase =>
        \A d \in NamedBefore :
            LET st == imp.pre.store
                vc == st.devices[d].virtual_chassis
                count == Cardinality({m \in 1..Len(st.devices) :
                                        st.devices[m].virtual_chassis = vc})
                rows == 1..Len(LastRows)
                pos(i) == ParseInt(LastRows[i].ID)
                differing == {i \in rows :
                                \E m \in StoredAt(d, pos(i)) :
                                    st.devices[m].serial #
                                        Strip(LastRows[i].Serial)}
                missing == {i \in rows : StoredAt(d, pos(i)) = {}}
                mm == LastOutcome.mismatches
            IN /\ imp.store = imp.pre.store
               /\ vc = NoRef =>
                      /\ LastOutcome.status = "validated"
                      /\ mm = <<[kind |-> "no_virtual_chassis"]>>
               /\ (/\ vc # NoRef
                   /\ \A i \in rows : Cardinality(StoredAt(d, pos(i))) <= 1) =>
                      /\ LastOutcome.status = "validated"
                      /\ CountKind(mm, "serial") = Cardinality(differing)
                      /\ CountKind(mm, "missing_member") =
                             Cardinality(missing)
                      /\ CountKind(mm, "member_count") =
                             (IF count # Len(LastRows) THEN 1 ELSE 0)
                      /\ Len(mm) = CountKind(mm, "serial")
                                   + CountKind(mm, "missing_member")
                                   + CountKind(mm, "member_count")

\* a group of two rows was validated against a virtual chassis that held
\* one of its positions only: a member-count entry and a missing-member
\* entry, and the store as it was
C27_Witness ==
    /\ ValidatedCase
    /\ Len(LastRows) = 2
    /\ LastOutcome.status = "validated"
    /\ CountKind(LastOutcome.mismatches, "member_count") = 1
    /\ CountKind(LastOutcome.mismatches, "missing_member") = 1
    /\ imp.store = imp.pre.store

----------------------------------------------------------------------------
(* State selection of the AKIPS job *)

\* C20: a group that reaches the state selection of process_virtual_chassis
\* while a virtual chassis of its name is in the store takes the verify
\* path, and no virtual chassis is created; and the verify path is taken
\* only for a virtual chassis of the group's name.
C20_VerifySelection ==
    (Acted /\ pre.path \in {"verify", "bare", "fresh"}) =>
        /\ (\E v \in 1..Len(pre.store.vcs) : pre.store.vcs[v].name = LastName)
               => /\ pre.path = "verify"
                  /\ Len(store.vcs) = Len(pre.store.vcs)
        /\ pre.path = "verify" =>
               pre.store.vcs[VcByMasterName(PreWorld, LastName)].name
                   = LastName

----------------------------------------------------------------------------
(* The verify path of the AKIPS job *)

\* the virtual chassis the last group was verified against
VerifiedVc == VcByMasterName(PreWorld, LastName)

\* the device the verify path looks up for member i of the last group, in
\* the store before the group
VerifiedDevice(i) ==
    DeviceByName(PreWorld, MemberName(pre.store.vcs[VerifiedVc].name,
                                      LastMembers[i].member_id))

\* C22: in the verify path, every member whose device is stored at a
\* position other than its member id adds an entry to vc_mismatches (an
\* entry that is no member-count entry), and the stored position stays.
C22_PositionMismatch ==
    (Normal /\ pre.path = "verify") =>
        \A i \in 1..Len(LastMembers) :
            LET d == VerifiedDevice(i)
                new == Gained(pre.stats.vc_mismatches, stats.vc_mismatches)
            IN (/\ d # NoRef
                /\ pre.store.devices[d].vc_position #
                       LastMembers[i].member_id) =>
                   /\ \E k \in 1..Len(new) : new[k].issue # "member_count"
                   /\ store.devices[d].vc_position =
                          pre.store.devices[d].vc_position

\* the members of the last group that the verify path found no device for,
\* their device type resolvable
AbsentMembers ==
    {i \in 1..Len(LastMembers) :
        VerifiedDevice(i) = NoRef /\ Resolvable(LastMembers[i])}

\* C23: in the verify path (distinct member ids, no store failure), every
\* member whose device '{vc name}-{member id}' is absent and whose device
\* type resolves gets that device, created in the existing virtual chassis
\* at the position of its member id with the import's serial;
\* devices_created grows by one per such member; no serial mismatch is
\* recorded for it, no structural mismatch but the member count is
\* recorded, and no virtual chassis is created.
C23_MissingMemberCreated ==
    (Normal /\ pre.path = "verify" /\ DistinctIds(LastMembers)) =>
        /\ \A i \in AbsentMembers :
              LET name == MemberName(pre.store.vcs[VerifiedVc].name,
                                     LastMembers[i].member_id)
                  named == DevicesNamed(store, name)
              IN /\ Cardinality(named) = 1
                 /\ \A d \in named :
                      /\ d > Len(pre.store.devices)
                      /\ store.devices[d].virtual_chassis = VerifiedVc
                      /\ store.devices[d].vc_position =
                             LastMembers[i].member_id
                      /\ store.devices[d].serial = LastMembers[i].serial
                 /\ NewSerialMismatches(name) = {}
        /\ stats.devices_created =
               pre.stats.devices_created + Cardinality(AbsentMembers)
        /\ Len(store.devices) =
               Len(pre.store.devices) + Cardinality(AbsentMembers)
        /\ \A k \in (Len(pre.stats.vc_mismatches) + 1)
                      ..Len(stats.vc_mismatches) :
              stats.vc_mismatches[k].issue = "member_count"
        /\ store.vcs = pre.store.vcs

\* both members of a group were missing under its virtual chassis and were
\* created in it
C23_Witness ==
    /\ Normal
    /\ pre.path = "verify"
    /\ DistinctIds(LastMembers)
    /\ Cardinality(AbsentMembers) = 2
    /\ stats.devices_created = pre.stats.devices_created + 2
    /\ store.devices[Len(store.devices)].virtual_chassis = VerifiedVc

----------------------------------------------------------------------------
(* The bare-device path of the AKIPS job *)

\* the device named after the last group, in the store before the group
BareDevice == DeviceByName(PreWorld, LastName)

\* the last group met a device of its name that is in no virtual chassis,
\* and no virtual chassis whose master carries the name
BareCase ==
    /\ Acted
    /\ pre.path = "bare"
    /\ pre.store.devices[BareDevice].virtual_chassis = NoRef

\* C24: a group of several members (distinct member ids, device types
\* resolvable, no store failure) that meets a bare device of its name gets
\* exactly one new virtual chassis, named after the group; every member
\* then has one device named '{group}-{member id}', in that virtual chassis
\* at the position of its member id, with priority 1 when tagged master or
\* backup and none otherwise; and the master reference is the device of
\* the first member in member id order.
C24_BareConversion ==
    (/\ BareCase
     /\ Normal
     /\ Len(LastMembers) > 1
     /\ DistinctIds(LastMembers)
     /\ \A i \in 1..Len(LastMembers) : Resolvable(LastMembers[i])) =>
        LET vc == Len(store.vcs)
        IN /\ Len(store.vcs) = Len(pre.store.vcs) + 1
           /\ IsPrefix(pre.store.vcs, store.vcs)
           /\ store.vcs[vc].name = LastName
           /\ stats.virtual_chassis_created =
                  pre.stats.virtual_chassis_created + 1
           /\ \A i \in 1..Len(LastMembers) :
                LET named == DevicesNamed(store,
                                 MemberName(LastName, LastMembers[i].member_id))
                    tag == Lower(LastMembers[i].role)
                IN /\ Cardinality(named) = 1
                   /\ \A d \in named :
                        /\ store.devices[d].virtual_chassis = vc
                        /\ store.devices[d].vc_position =
                               LastMembers[i].member_id
                        /\ tag \in {"master", "backup"} =>
                               store.devices[d].vc_priority = 1
                        /\ tag \notin {"master", "backup"} =>
                               store.devices[d].vc_priority = None
           /\ store.vcs[vc].master # NoRef
           /\ store.devices[store.vcs[vc].master].name =
                  MemberName(LastName, LastMembers[1].member_id)

\* a group of a linecard and a backup member was converted: the backup
\* member's device was in the store and was attached, the linecard's was
\* created, and the master reference left the bare device
C24_Witness ==
    /\ BareCase
    /\ Normal
    /\ Len(LastMembers) = 2
    /\ DistinctIds(LastMembers)
    /\ \A i \in 1..Len(LastMembers) : Resolvable(LastMembers[i])
    /\ LastMembers[1].role = "linecard"
    /\ LastMembers[2].role = "backup"
    /\ DevicesNamed(pre.store,
                    MemberName(LastName, LastMembers[1].member_id)) = {}
    /\ \E d \in DevicesNamed(pre.store,
                    MemberName(LastName, LastMembers[2].member_id)) :
          /\ pre.store.devices[d].virtual_chassis = NoRef
          /\ store.devices[d].virtual_chassis = Len(store.vcs)
          /\ store.devices[d].vc_priority = 1
    /\ Len(store.vcs) = Len(pre.store.vcs) + 1
    /\ store.vcs[Len(store.vcs)].master # BareDevice

\* C25: a group of one member that meets a bare device of its name leaves
\* every device and every virtual chassis of the store as it was, adds
\* exactly 1 to devices_updated, leaves the other counters, the errors and
\* the structural mismatches as they were, and appends one serial mismatch
\* (the master record's serial expected, the stored one found) exactly when
\* the stored serial differs.
C25_BareSingleMember ==
    (BareCase /\ Len(LastMembers) = 1) =>
        LET stored == pre.store.devices[BareDevice].serial
            master == MasterMember(LastMembers)
        IN /\ pc # "raised"
           /\ store.devices = pre.store.devices
           /\ store.vcs = pre.store.vcs
           /\ stats.devices_updated = pre.stats.devices_updated + 1
           /\ stats.devices_created = pre.stats.devices_created
           /\ stats.devices_skipped = pre.stats.devices_skipped
           /\ stats.virtual_chassis_created =
                  pre.stats.virtual_chassis_created
           /\ stats.virtual_chassis_updated =
                  pre.stats.virtual_chassis_updated
           /\ stats.errors = pre.stats.errors
           /\ stats.vc_mismatches = pre.stats.vc_mismatches
           /\ stats.serial_mismatches =
                  IF stored # master.serial
                  THEN Append(pre.stats.serial_mismatches,
                              [device |-> LastName,
                               member_id |-> master.member_id,
                               expected_serial |-> master.serial,
                               actual_serial |-> stored])
                  ELSE pre.stats.serial_mismatches

\* a single-member group met a bare device with another serial
C25_Witness ==
    /\ BareCase
    /\ Len(LastMembers) = 1
    /\ pre.store.devices[BareDevice].serial # LastMembers[1].serial
    /\ stats.devices_updated = pre.stats.devices_updated + 1
    /\ Len(stats.serial_mismatches) = Len(pre.stats.serial_mismatches) + 1
    /\ store.devices = pre.store.devices

----------------------------------------------------------------------------
(* Top-level failures and the order of the AKIPS job's steps *)

\* the file of the current run could not be read, or could not be parsed
TopLevelFailure == runs > 0 /\ (hist.nrows = None \/ hist.nbad > 0)

\* C28: a run whose file cannot be read or cannot be parsed raises to its
\* caller before any group is processed: no group is processed, and the
\* store and the counters are as they were when the run started.
C28_TopLevelAbort ==
    TopLevelFailure =>
        /\ pc = "raised"
        /\ ~Acted
        /\ idx = 1
        /\ store = hist.start
        /\ stats = EmptyStats

\* a file of two rows, one of them with an ID that is no integer: the
\* group of the other row was not processed
C28_Witness ==
    /\ TopLevelFailure
    /\ hist.nrows = 2
    /\ hist.nbad = 1
    /\ pc = "raised"
    /\ store = hist.start

\* C29: the groups are processed one after the other in the order of
\* device_groups: the store changes only in the step of the loop on the
\* group at the loop's position, starting from the store the step before
\* left; the position moves on by one group at a time, and only a group
\* that raised leaves it where it was; the summary comes when the position
\* is past the last group, and changes neither store nor counters.
C29_Sequential ==
    [][/\ store' # store =>
             /\ pc = "running"
             /\ idx <= Len(device_groups)
             /\ pre'.store = store
             /\ pre'.path # "none"
             /\ idx' = idx + 1 \/ (idx' = idx /\ pc' = "raised")
       /\ idx' # idx =>
             \/ /\ pc = "running"
                /\ pc' = "running"
                /\ idx <= Len(device_groups)
                /\ idx' = idx + 1
             \/ /\ pc \in {"idle", "done"}
                /\ idx' = 1
       /\ (pc' = "done" /\ pc # "done") =>
             /\ pc = "running"
             /\ idx > Len(device_groups)
             /\ store' = store
             /\ stats' = stats]_vars

\* a run of two groups ended with its summary, each group having created
\* a device
C29_Witness ==
    /\ pc = "done"
    /\ Len(device_groups) = 2
    /\ idx = 3
    /\ stats.devices_created = 2
    /\ Len(store.devices) = Len(hist.start.devices) + 2

\* C30: in every run, failed creates included, devices_created is the
\* number of devices the store gained since the run started: while the run
\* is under way, at its summary, and when it raised.
C30_CreatedCounter ==
    pc # "idle" =>
        stats.devices_created = Len(store.devices) - Len(hist.start.devices)

\* a run ended with its summary after a create failed in it and others
\* succeeded
C30_Witness ==
    /\ pc = "done"
    /\ faults > hist.faults0
    /\ stats.errors # <<>>
    /\ stats.devices_created >= 1
    /\ Len(store.devices) > Len(hist.start.devices)

\* C31: in every run virtual_chassis_created is the number of virtual
\* chassis the store gained since the run started, also when
\* create_virtual_chassis failed part-way: a call that recorded an error
\* left no virtual chassis behind.
C31_VcCounter ==
    pc # "idle" =>
        stats.virtual_chassis_created = Len(store.vcs) - Len(hist.start.vcs)

\* C33: in every store reached by runs that started from a store without
\* devices and virtual chassis, no two virtual chassis share a name, no two
\* devices share a name, and no two devices of one virtual chassis share a
\* position.
C33_NoDuplicates ==
    (hist.origin.devices = <<>> /\ hist.origin.vcs = <<>>) =>
        /\ \A v, u \in 1..Len(store.vcs) :
              v # u => store.vcs[v].name # store.vcs[u].name
        /\ \A d, e \in 1..Len(store.devices) :
              d # e =>
                 /\ store.devices[d].name # store.devices[e].name
                 /\ (/\ store.devices[d].virtual_chassis # NoRef
                     /\ store.devices[d].virtual_chassis =
                            store.devices[e].virtual_chassis) =>
                        store.devices[d].vc_position #
                            store.devices[e].vc_position

----------------------------------------------------------------------------
(* Outcomes of the virtual chassis import job *)

\* C34: a group of ImportVirtualChassisDevices that ends in the errors list
\* of run left no virtual chassis and no device of its own in the store:
\* the store holds as many of each as before the group was processed.
C34_AllOrNothing ==
    \A k \in 1..Len(imp.outcomes) :
        imp.outcomes[k].status = "raised" =>
            imp.outcomes[k].ndev = 0 /\ imp.outcomes[k].nvc = 0

\* the number of entries of a result list that name the device identifier
Listed(list, device_name) ==
    Cardinality({e \in 1..Len(list) : list[e] = device_name})

\* the number of entries of the errors list for the device identifier
ListedError(device_name) ==
    Cardinality({e \in 1..Len(imp.results.errors) :
                    imp.results.errors[e].device = device_name})

\* C35: at the end of a run of ImportVirtualChassisDevices each distinct
\* device identifier of the input has exactly one entry in the result lists
\* created, validated and errors taken together; a group is in created only
\* if no device carried its name when it was processed, and in validated
\* only if one did.
C35_OutcomePartition ==
    /\ (imp.pc = "done" /\ imp.rows # <<>>) =>
           \A i \in 1..Len(imp.rows) :
               LET device_name == StripName(imp.rows[i].Device)
               IN Listed(imp.results.created, device_name)
                  + Listed(imp.results.validated, device_name)
                  + ListedError(device_name) = 1
    /\ (imp.pc \in {"running", "done"} /\ imp.outcomes # <<>>) =>
           /\ Listed(imp.results.created, LastGroup.device_name) > 0 =>
                  NamedBefore = {}
           /\ Listed(imp.results.validated, LastGroup.device_name) > 0 =>
                  NamedBefore # {}

\* a run of two groups ended: the one whose device was in the store is in
\* validated, the one without a location is in errors, none is in created
C35_Witness ==
    /\ imp.pc = "done"
    /\ Len(imp.groups) = 2
    /\ imp.results.created = <<>>
    /\ Len(imp.results.validated) = 1
    /\ Len(imp.results.errors) = 1
    /\ imp.results.validated[1] # imp.results.errors[1].device

----------------------------------------------------------------------------
(* The CreateVirtualChassis job *)

\* the virtual chassis a run of CreateVirtualChassis created, and the
\* device it saved for member i
ChassisVc == Len(probe.store.vcs) + 1

ChassisDevice(i) == probe.out.store.devices[Len(probe.store.devices) + i]

\* C36: after a successful run of CreateVirtualChassis on any member list
\* the virtual chassis has a master, which is the device of the member with
\* member_position 0; that member's device alone is named by the hostname
\* and every other one '{hostname}:{position}'; every member's device is
\* attached to the virtual chassis at its member_position, and has
\* vc_priority 1 exactly when its role is 'routing-engine'.
C36_ChassisMaster ==
    (probe.op = "CreateVirtualChassis.run" /\ probe.out.ok) =>
        LET st == probe.out.store
            mems == probe.data.members
            master == st.vcs[ChassisVc].master
        IN /\ Len(st.devices) = Len(probe.store.devices) + Len(mems)
           /\ master # NoRef
           /\ \A i \in 1..Len(mems) :
                 LET device == ChassisDevice(i)
                 IN /\ device.virtual_chassis = ChassisVc
                    /\ device.vc_position = ParseInt(mems[i].member_position)
                    /\ device.vc_priority = 1 <=>
                           mems[i].member_role = "routing-engine"
                    /\ master = Len(probe.store.devices) + i <=>
                           mems[i].member_position = "0"
                    /\ device.name =
                           (IF mems[i].member_position = "0"
                            THEN probe.data.hostname
                            ELSE probe.data.hostname \o ":"
                                     \o mems[i].member_position)
                    /\ device.name = probe.data.hostname <=>
                           mems[i].member_position = "0"

====
